---- MODULE Spec2Model ----
(***************************************************************************)
(* web-research-mcp: the URL canonicaliser (normalizeUrl, deduplicateUrls) *)
(* and the content pipeline (cleanWhitespace, truncateAtBoundary,          *)
(* extractContent, extractTitle) of packages/mcp/src/server/utils, and the *)
(* two tools built on them: fetchPages (tools/fetch.ts) and multiSearch    *)
(* (tools/search.ts); the handler of tool calls of the server (cli.ts);    *)
(* and, of the toolkit installer, replacePlaceholders and installOpenCode. *)
(*                                                                         *)
(* Strings are sequences of one-character strings, so that the parsing,    *)
(* the case mapping and the slicing of the code are computed and not       *)
(* assumed.                                                                *)
(***************************************************************************)
EXTENDS Naturals, Integers, Sequences, FiniteSets, TLC

VARIABLES
    \* normalizeUrl called on one URL
    url,            \* the argument, a string
    given,          \* the components the argument was written from
    normalized,     \* the returned string
    npc,            \* "idle" | "call" | "done"
    \* deduplicateUrls
    urls,           \* the argument, a sequence of strings
    seen,           \* Set<string> of keys
    unique,         \* string[] being built
    idx,            \* position of the for-of loop, 1-based
    dpc,            \* "idle" | "loop" | "done"
    \* cleanWhitespace / truncateAtBoundary / extractContent
    text,           \* the text argument (cleanWhitespace, truncateAtBoundary)
    html,           \* the document handed to extractContent / extractTitle
    maxChars,       \* the maxChars argument
    out,            \* the returned value
    cpc,            \* "idle" | "call" | "fallback" | "cleaned" | "truncated" | "extracted" | "titled"
    \* fetchPages
    pageUrls,       \* the urls argument, a sequence of strings
    timeout,        \* the timeout argument, in seconds
    pageMaxChars,   \* the maxChars argument
    reqs,           \* one fetchSinglePage call per position of pageUrls
    fetched,        \* the value fetchPages resolves to
    fpc,            \* "idle" | "call" | "awaiting" | "done" | "rejected"
    \* multiSearch
    queries,        \* the queries argument, a sequence of strings
    resultsPerQuery,\* the resultsPerQuery argument
    qi,             \* i of the search loop, 0-based
    allResults,     \* allResults, one result list per completed query
    failed,         \* the positions (1-based) of the queries whose request failed
    found,          \* the value multiSearch resolves to
    spc,            \* "idle" | "call" | "delaying" | "searching" | "reading" | "done" | "rejected"
    \* the runtime
    log,            \* the calls of fetch and setTimeout and what the runtime answered, in order
    \* the CallTool handler of the server
    request,        \* request.params: name and arguments
    reply,          \* what the handler resolves to or rejects with
    rpc,            \* "idle" | "request" | "multi_search" | "fetch_pages" | "done"
    \* replacePlaceholders
    template,       \* the template argument, a string
    values,         \* Object.entries(values), a sequence of [key, value] in insertion order
    replaced,       \* the returned string
    tpc,            \* "idle" | "call" | "done"
    \* installOpenCode
    config,         \* opencode.json in the working directory, or Absent
    written,        \* the paths of the agent and skill files written
    ipc             \* "idle" | "ready" | "installed" | "reinstalled" | "failed"

urlVars == <<url, given, normalized, npc>>
dedupVars == <<urls, seen, unique, idx, dpc>>
contentVars == <<text, html, maxChars, out, cpc>>
fetchVars == <<pageUrls, timeout, pageMaxChars, reqs, fetched, fpc>>
searchVars == <<queries, resultsPerQuery, qi, allResults, failed, found, spc>>
serverVars == <<request, reply, rpc>>
templateVars == <<template, values, replaced, tpc>>
installVars == <<config, written, ipc>>
otherVars == <<serverVars, templateVars, installVars>>
toolVars == <<fetchVars, searchVars, log, otherVars>>
vars == <<url, given, normalized, npc, urls, seen, unique, idx, dpc,
          text, html, maxChars, out, cpc,
          pageUrls, timeout, pageMaxChars, reqs, fetched, fpc,
          queries, resultsPerQuery, qi, allResults, failed, found, spc, log,
          request, reply, rpc, template, values, replaced, tpc, config, written, ipc>>

\* null, and a thrown exception, as values no string is equal to
Null == <<"null">>
Throws == <<"throws">>

(***************************************************************************)
(* String primitives of the platform (methods of String.prototype).       *)
(***************************************************************************)
Uppers == <<"A","B","C","D","E","F","G","H","I","J","K","L","M",
            "N","O","P","Q","R","S","T","U","V","W","X","Y","Z">>
Lowers == <<"a","b","c","d","e","f","g","h","i","j","k","l","m",
            "n","o","p","q","r","s","t","u","v","w","x","y","z">>
Digits == {"0","1","2","3","4","5","6","7","8","9"}

Range(s) == {s[i] : i \in 1..Len(s)}

LowerChar(c) ==
    IF \E i \in 1..26 : Uppers[i] = c
    THEN Lowers[CHOOSE i \in 1..26 : Uppers[i] = c]
    ELSE c

toLowerCase(s) == [i \in 1..Len(s) |-> LowerChar(s[i])]

IsAlpha(c) == c \in Range(Uppers) \cup Range(Lowers)

\* s.slice(from) with a 0-based from
SliceFrom(s, from) == SubSeq(s, from + 1, Len(s))

\* s.slice(0, to) with a 0-based exclusive end
SliceTo(s, to) == SubSeq(s, 1, to)

startsWith(s, p) == Len(p) <= Len(s) /\ SubSeq(s, 1, Len(p)) = p

endsWith(s, p) == Len(p) <= Len(s) /\ SubSeq(s, Len(s) - Len(p) + 1, Len(s)) = p

\* s.indexOf(c) for one character, 0-based, -1 when absent
indexOf(s, c) ==
    IF \E i \in 1..Len(s) : s[i] = c
    THEN (CHOOSE i \in 1..Len(s) : s[i] = c /\ \A j \in 1..(i-1) : s[j] # c) - 1
    ELSE -1

\* the first position (0-based) of any character of cs, Len(s) when there is none
FirstOf(s, cs) ==
    IF \E i \in 1..Len(s) : s[i] \in cs
    THEN (CHOOSE i \in 1..Len(s) : s[i] \in cs /\ \A j \in 1..(i-1) : s[j] \notin cs) - 1
    ELSE Len(s)

\* s.lastIndexOf(p) for a non-empty string p, 0-based, -1 when absent
lastIndexOf(s, p) ==
    LET hits == {i \in 0..(Len(s) - Len(p)) : SubSeq(s, i + 1, i + Len(p)) = p}
    IN IF hits = {} THEN -1 ELSE CHOOSE i \in hits : \A j \in hits : j <= i

RECURSIVE Split(_, _)
\* s.split(c) for a one-character separator
Split(s, c) ==
    LET k == indexOf(s, c)
    IN IF k = -1 THEN <<s>>
       ELSE <<SliceTo(s, k)>> \o Split(SliceFrom(s, k + 1), c)

RECURSIVE Join(_, _)
\* parts.join(sep)
Join(parts, sep) ==
    IF Len(parts) = 0 THEN <<>>
    ELSE IF Len(parts) = 1 THEN parts[1]
    ELSE parts[1] \o sep \o Join(Tail(parts), sep)

(***************************************************************************)
(* new URL(url), for the http and https schemes. The model covers URLs     *)
(* written with letters, digits and the delimiters : / ? # & = + . - _ ;   *)
(* user info, dot segments, percent escapes and other schemes are outside  *)
(* it. A string with no scheme, an empty host or a non-numeric port does   *)
(* not parse (the constructor throws).                                     *)
(***************************************************************************)
Str_http == <<"h","t","t","p">>
Str_https == <<"h","t","t","p","s">>
Str_www == <<"w","w","w",".">>

SchemeChar(c) == IsAlpha(c) \/ c \in Digits \/ c \in {"+", "-", "."}

\* the port a scheme implies, which the parser drops from the URL record
DefaultPort(scheme) ==
    IF scheme = Str_http THEN <<"8","0">>
    ELSE IF scheme = Str_https THEN <<"4","4","3">>
    ELSE <<>>

RECURSIVE SkipSlashes(_)
\* the "special authority ignore slashes" state: every leading "/" is skipped
SkipSlashes(s) ==
    IF Len(s) > 0 /\ s[1] = "/" THEN SkipSlashes(Tail(s)) ELSE s

Failure == [ok |-> FALSE]

ParseUrl(u) ==
    LET colon == indexOf(u, ":")
    IN IF colon < 1 \/ ~IsAlpha(u[1])
          \/ \E i \in 1..colon : ~SchemeChar(u[i])
       THEN Failure
       ELSE
       LET scheme == toLowerCase(SliceTo(u, colon))
           rest == SkipSlashes(SliceFrom(u, colon + 1))
           aEnd == FirstOf(rest, {"/", "?", "#"})
           authority == SliceTo(rest, aEnd)
           pcolon == indexOf(authority, ":")
           host == IF pcolon = -1 THEN authority ELSE SliceTo(authority, pcolon)
           portText == IF pcolon = -1 THEN <<>> ELSE SliceFrom(authority, pcolon + 1)
           after == SliceFrom(rest, aEnd)
           pEnd == FirstOf(after, {"?", "#"})
           path == SliceTo(after, pEnd)
           tail == SliceFrom(after, pEnd)
           hashAt == indexOf(tail, "#")
           beforeHash == IF hashAt = -1 THEN tail ELSE SliceTo(tail, hashAt)
       IN IF Len(host) = 0 \/ \E i \in 1..Len(portText) : portText[i] \notin Digits
          THEN Failure
          ELSE [ok |-> TRUE,
                protocol |-> scheme \o <<":">>,
                hostname |-> toLowerCase(host),
                port |-> IF portText = DefaultPort(scheme) THEN <<>> ELSE portText,
                pathname |-> IF Len(path) = 0 THEN <<"/">> ELSE path,
                \* the query without its leading "?"
                query |-> IF Len(beforeHash) = 0 THEN <<>> ELSE Tail(beforeHash),
                hash |-> IF hashAt = -1 THEN <<>> ELSE SliceFrom(tail, hashAt)]

(***************************************************************************)
(* URLSearchParams: a list of <<name, value>> pairs.                       *)
(***************************************************************************)
\* application/x-www-form-urlencoded decoding of one name or value
FormDecode(s) == [i \in 1..Len(s) |-> IF s[i] = "+" THEN " " ELSE s[i]]

\* ... and its encoding
FormEncode(s) == [i \in 1..Len(s) |-> IF s[i] = " " THEN "+" ELSE s[i]]

\* one "name=value" piece of a query: split at the first "="
ParsePair(piece) ==
    LET eq == indexOf(piece, "=")
    IN IF eq = -1 THEN <<FormDecode(piece), <<>>>>
       ELSE <<FormDecode(SliceTo(piece, eq)), FormDecode(SliceFrom(piece, eq + 1))>>

\* url.searchParams: the pieces between "&", the empty ones skipped
searchParams(query) ==
    LET pieces == SelectSeq(Split(query, "&"), LAMBDA p : Len(p) > 0)
    IN [i \in 1..Len(pieces) |-> ParsePair(pieces[i])]

RECURSIVE DropName(_, _)
DropName(params, key) ==
    IF Len(params) = 0 THEN <<>>
    ELSE IF params[1][1] = key THEN DropName(Tail(params), key)
    ELSE <<params[1]>> \o DropName(Tail(params), key)

\* URLSearchParams.prototype.set: the first pair named key takes the value and
\* the other pairs named key are removed; with no such pair, one is appended
ParamsSet(params, key, value) ==
    IF \E i \in 1..Len(params) : params[i][1] = key
    THEN LET first == CHOOSE i \in 1..Len(params) :
                          params[i][1] = key /\ \A j \in 1..(i-1) : params[j][1] # key
         IN SubSeq(params, 1, first - 1) \o <<<<key, value>>>>
            \o DropName(SubSeq(params, first + 1, Len(params)), key)
    ELSE Append(params, <<key, value>>)

\* URLSearchParams.prototype.toString
ParamsToString(params) ==
    Join([i \in 1..Len(params) |->
            FormEncode(params[i][1]) \o <<"=">> \o FormEncode(params[i][2])],
         <<"&">>)

(***************************************************************************)
(* normalizeUrl                                                            *)
(***************************************************************************)
TRACKING_PARAMS == {
    <<"u","t","m","_","s","o","u","r","c","e">>,
    <<"u","t","m","_","m","e","d","i","u","m">>,
    <<"u","t","m","_","c","a","m","p","a","i","g","n">>,
    <<"u","t","m","_","t","e","r","m">>,
    <<"u","t","m","_","c","o","n","t","e","n","t">>,
    <<"u","t","m","_","i","d">>,
    <<"u","t","m","_","s","o","u","r","c","e","_","p","l","a","t","f","o","r","m">>,
    <<"u","t","m","_","c","r","e","a","t","i","v","e","_","f","o","r","m","a","t">>,
    <<"u","t","m","_","m","a","r","k","e","t","i","n","g","_","t","a","c","t","i","c">>,
    <<"f","b","c","l","i","d">>,
    <<"g","c","l","i","d">>,
    <<"g","c","l","s","r","c">>,
    <<"d","c","l","i","d">>,
    <<"g","b","r","a","i","d">>,
    <<"w","b","r","a","i","d">>,
    <<"m","s","c","l","k","i","d">>,
    <<"t","w","c","l","i","d">>,
    <<"i","g","s","h","i","d">>,
    <<"m","c","_","c","i","d">>,
    <<"m","c","_","e","i","d">>,
    <<"r","e","f">>,
    <<"r","e","f","_">>,
    <<"s","o","u","r","c","e">>,
    <<"s","r","c">>}

\* StripWww as a loop would have it: every leading "www." is removed
RECURSIVE StripWwwRepeated(_)
StripWwwRepeated(hostname) ==
    IF startsWith(hostname, Str_www)
    THEN StripWwwRepeated(SliceFrom(hostname, 4))
    ELSE hostname

\* if (hostname.startsWith("www.")) hostname = hostname.slice(4)
StripWww(hostname) ==
    IF startsWith(hostname, Str_www) THEN SliceFrom(hostname, 4) ELSE hostname

RECURSIVE FilterParams(_, _)
\* the loop over parsed.searchParams, params being the URLSearchParams built so far
FilterParams(pairs, params) ==
    IF Len(pairs) = 0 THEN params
    ELSE LET key == pairs[1][1]
             value == pairs[1][2]
         IN FilterParams(Tail(pairs),
                         IF toLowerCase(key) \notin TRACKING_PARAMS
                         THEN ParamsSet(params, key, value)
                         ELSE params)

RECURSIVE StripTrailing(_)
\* pathname.replace(/\/+$/, ""): the whole run of "/" at the end is removed
StripTrailing(pathname) ==
    IF Len(pathname) > 0 /\ pathname[Len(pathname)] = "/"
    THEN StripTrailing(SliceTo(pathname, Len(pathname) - 1))
    ELSE pathname

TrimPath(pathname) ==
    IF pathname # <<"/">> /\ endsWith(pathname, <<"/">>)
    THEN StripTrailing(pathname)
    ELSE pathname

\* OnParseFailure with a case fold: the unparseable string is returned in lower case
OnParseFailureLowered(u) == toLowerCase(u)

\* catch { return url; }
OnParseFailure(u) == u

normalizeUrl(u) ==
    LET parsed == ParseUrl(u)
    IN IF ~parsed.ok THEN OnParseFailure(u)
       ELSE LET hostname == StripWww(toLowerCase(parsed.hostname))
                params == FilterParams(searchParams(parsed.query), <<>>)
                pathname == TrimPath(parsed.pathname)
                query == ParamsToString(params)
            IN parsed.protocol \o <<"/", "/">> \o hostname \o pathname
               \o (IF Len(query) > 0 THEN <<"?">> \o query ELSE <<>>)

(***************************************************************************)
(* deduplicateUrls                                                         *)
(***************************************************************************)
\* Push of the key in place of the original string
PushNormalized(list, u, key) == Append(list, key)

\* unique.push(url)
Push(list, u, key) == Append(list, u)

(***************************************************************************)
(* The URLs normalizeUrl is called on: written from components, so that    *)
(* what the parser has to find is known.                                   *)
(***************************************************************************)
MaxParams == 2
MaxUrls == 3

Schemes == {Str_https, Str_http, <<"H","T","T","P","S">>}
WwwCounts == {0, 1, 2}
Bases == {<<"a",".","c","o">>, <<"A",".","C","o">>}
Ports == {<<>>, <<"8","0","8","0">>}
Paths == {<<>>, <<"/">>, <<"/","/">>, <<"/","p">>, <<"/","p","/">>, <<"/","p","/","/">>, <<"/","P","/","q">>}
Fragments == {<<>>, <<"f">>}
\* <<name, value>> as written in the query
ParamPool == {<<<<"a">>, <<"1">>>>, <<<<"a">>, <<"2">>>>, <<<<"b">>, <<"x","+","y">>>>,
              <<<<"R","e","f">>, <<"1">>>>, <<<<"u","t","m","_","i","d">>, <<"1">>>>}
ParamLists == UNION {[1..n -> ParamPool] : n \in 0..MaxParams}

\* strings that are no URL
NonUrls == {<<"n","o","t","-","a","-","u","r","l">>, <<"N","O","T","-","A","-","U","R","L">>, <<"a",".","c","o","/","p">>, <<"h","t","t","p","s",":","/","/">>, <<"h","t","t","p","s",":","/","/","a",".","c","o",":","x","/">>}

RECURSIVE Www(_)
Www(k) == IF k = 0 THEN <<>> ELSE Str_www \o Www(k - 1)

PairText(p) == p[1] \o <<"=">> \o p[2]

QueryText(ps) == Join([i \in 1..Len(ps) |-> PairText(ps[i])], <<"&">>)

\* the URL string a list of components is written as
Written(g) ==
    g.scheme \o <<":", "/", "/">> \o Www(g.www) \o g.base
    \o (IF Len(g.port) > 0 THEN <<":">> \o g.port ELSE <<>>)
    \o g.path
    \o (IF Len(g.params) > 0 THEN <<"?">> \o QueryText(g.params) ELSE <<>>)
    \o (IF Len(g.fragment) > 0 THEN <<"#">> \o g.fragment ELSE <<>>)

Components ==
    [kind : {"url"}, scheme : Schemes, www : WwwCounts, base : Bases, port : Ports,
     path : Paths, params : ParamLists, fragment : Fragments]

\* the strings deduplicateUrls is called on
UrlPool == {<<"h","t","t","p","s",":","/","/","a",".","c","o","/","x">>,
            <<"h","t","t","p","s",":","/","/","w","w","w",".","a",".","c","o","/","x">>,
            <<"h","t","t","p","s",":","/","/","a",".","c","o","/","x","/","?","u","t","m","_","i","d","=","1">>,
            <<"h","t","t","p","s",":","/","/","A",".","c","o","/","x","#","f">>,
            <<"h","t","t","p",":","/","/","a",".","c","o","/","x">>,
            <<"h","t","t","p","s",":","/","/","b",".","c","o","/","x">>,
            <<"n","o","t","-","a","-","u","r","l">>,
            <<"N","O","T","-","A","-","U","R","L">>,
            <<"h","t","t","p","s",":","/","/">>}
UrlLists == UNION {[1..n -> UrlPool] : n \in 0..MaxUrls}

(***************************************************************************)
(* Specification of the URL canonicaliser called on one string.            *)
(***************************************************************************)
Idle == <<>>

UrlIdle == url = Idle /\ given = Idle /\ normalized = Idle /\ npc = "idle"
DedupIdle == urls = Idle /\ seen = {} /\ unique = Idle /\ idx = 0 /\ dpc = "idle"
ContentIdle == text = Idle /\ html = Idle /\ maxChars = 0 /\ out = Idle /\ cpc = "idle"
FetchIdle ==
    /\ pageUrls = Idle /\ timeout = 0 /\ pageMaxChars = 0
    /\ reqs = Idle /\ fetched = Idle /\ fpc = "idle"
SearchIdle ==
    /\ queries = Idle /\ resultsPerQuery = 0 /\ qi = 0 /\ allResults = Idle
    /\ failed = {} /\ found = Idle /\ spc = "idle"
ServerIdle == request = Idle /\ reply = Idle /\ rpc = "idle"
TemplateIdle == template = Idle /\ values = Idle /\ replaced = Idle /\ tpc = "idle"
InstallIdle == config = Idle /\ written = {} /\ ipc = "idle"
OtherIdle == ServerIdle /\ TemplateIdle /\ InstallIdle
ToolIdle == FetchIdle /\ SearchIdle /\ log = Idle /\ OtherIdle

InitUrl ==
    /\ \/ \E g \in Components : given = g /\ url = Written(g)
       \/ \E t \in NonUrls : given = [kind |-> "text"] /\ url = t
    /\ normalized = Idle
    /\ npc = "call"
    /\ DedupIdle
    /\ ContentIdle
    /\ ToolIdle

NormalizeUrl ==
    /\ npc = "call"
    /\ normalized' = normalizeUrl(url)
    /\ npc' = "done"
    /\ UNCHANGED <<url, given, dedupVars, contentVars, toolVars>>

NextUrl == NormalizeUrl

SpecUrl == InitUrl /\ [][NextUrl]_vars

(***************************************************************************)
(* Specification of deduplicateUrls: one action per iteration of the loop. *)
(***************************************************************************)
InitDedup ==
    /\ urls \in UrlLists
    /\ seen = {}
    /\ unique = <<>>
    /\ idx = 1
    /\ dpc = "loop"
    /\ UrlIdle
    /\ ContentIdle
    /\ ToolIdle

DedupIterate ==
    /\ dpc = "loop"
    /\ idx <= Len(urls)
    /\ LET key == normalizeUrl(urls[idx])
       IN IF key \notin seen
          THEN /\ seen' = seen \cup {key}
               /\ unique' = Push(unique, urls[idx], key)
          ELSE UNCHANGED <<seen, unique>>
    /\ idx' = idx + 1
    /\ UNCHANGED <<urls, dpc, urlVars, contentVars, toolVars>>

DedupReturn ==
    /\ dpc = "loop"
    /\ idx > Len(urls)
    /\ dpc' = "done"
    /\ UNCHANGED <<urls, seen, unique, idx, urlVars, contentVars, toolVars>>

NextDedup == DedupIterate \/ DedupReturn

SpecDedup == InitDedup /\ [][NextDedup]_vars

(***************************************************************************)
(* Reading a key back: the parts of the string normalizeUrl returned.      *)
(***************************************************************************)
KeyScheme(k) == SliceTo(k, indexOf(k, ":"))

\* what follows "scheme://"
KeyRest(k) == SliceFrom(k, indexOf(k, ":") + 3)

KeyHost(k) == SliceTo(KeyRest(k), FirstOf(KeyRest(k), {"/", "?", "#"}))

KeyPath(k) ==
    LET r == SliceFrom(KeyRest(k), FirstOf(KeyRest(k), {"/", "?", "#"}))
    IN SliceTo(r, FirstOf(r, {"?", "#"}))

KeyQuery(k) ==
    IF indexOf(k, "?") = -1 THEN <<>> ELSE SliceFrom(k, indexOf(k, "?") + 1)

Unparseable(u) == ~ParseUrl(u).ok

NormalizedUrl == npc = "done" /\ given.kind = "url"

(***************************************************************************)
(* C1. deduplicateUrls returns exactly the elements whose key did not      *)
(* occur at an earlier position of the input, each in its original form,   *)
(* in the order of the input.                                              *)
(***************************************************************************)
FirstOccurrences(us) ==
    {i \in 1..Len(us) : \A j \in 1..(i - 1) : normalizeUrl(us[j]) # normalizeUrl(us[i])}

RECURSIVE AtIndices(_, _, _)
AtIndices(us, S, i) ==
    IF i > Len(us) THEN <<>>
    ELSE (IF i \in S THEN <<us[i]>> ELSE <<>>) \o AtIndices(us, S, i + 1)

\* C1: at return, unique is urls restricted to the first occurrence of each key
C1_FirstOccurrencesKept ==
    dpc = "done" => unique = AtIndices(urls, FirstOccurrences(urls), 1)

\* a later duplicate was dropped and a kept element differs from its own key
C1_Witness ==
    /\ dpc = "done"
    /\ Len(urls) = 3
    /\ Len(unique) = 2
    /\ normalizeUrl(urls[3]) = normalizeUrl(urls[1])
    /\ urls[3] # urls[1]
    /\ unique[1] # normalizeUrl(unique[1])

(***************************************************************************)
(* C2. The query of the key is exactly the input's parameters whose name   *)
(* is not a tracking parameter (compared case-insensitively), in their     *)
(* order, names and values as written, repeated names included.            *)
(***************************************************************************)
NotTracking(p) == toLowerCase(p[1]) \notin TRACKING_PARAMS

\* C2: the query of the key is the non-tracking parameters as written, in order
C2_QueryKeepsEveryOtherParameter ==
    NormalizedUrl => KeyQuery(normalized) = QueryText(SelectSeq(given.params, NotTracking))

(***************************************************************************)
(* C3. Exactly one trailing "/" is stripped from a path other than "/",    *)
(* the root path stays, the case of the path stays, and the path of the    *)
(* key is never empty.                                                     *)
(***************************************************************************)
GivenPath == IF Len(given.path) = 0 THEN <<"/">> ELSE given.path

\* C3: the path of the key is the input path less one trailing "/", never empty
C3_OneTrailingSlashStripped ==
    NormalizedUrl =>
        /\ KeyPath(normalized) =
               IF GivenPath # <<"/">> /\ GivenPath[Len(GivenPath)] = "/"
               THEN SliceTo(GivenPath, Len(GivenPath) - 1)
               ELSE GivenPath
        /\ Len(KeyPath(normalized)) > 0

(***************************************************************************)
(* C4. The host of the key is the input's host in lower case less one      *)
(* leading "www.", the key has no fragment, and the scheme is unchanged.   *)
(* As amended: the scheme of the key is the input's scheme in lower case.  *)
(***************************************************************************)
ExpectedHost == Www(IF given.www > 0 THEN given.www - 1 ELSE 0) \o toLowerCase(given.base)

C4_HostAndFragment ==
    /\ KeyHost(normalized) = ExpectedHost
    /\ "#" \notin Range(normalized)
    /\ startsWith(normalized, KeyScheme(normalized) \o <<":", "/", "/">> \o ExpectedHost)

\* C4 as stated: host and fragment as above, the scheme kept as written
C4_SchemeUnchanged ==
    NormalizedUrl => C4_HostAndFragment /\ KeyScheme(normalized) = given.scheme

\* C4 as amended: host and fragment as above, the scheme in lower case
C4_SchemeLowercased ==
    NormalizedUrl => C4_HostAndFragment /\ KeyScheme(normalized) = toLowerCase(given.scheme)

\* "HTTPS://www.www.A.Co...#f" was normalized
C4_Witness ==
    /\ NormalizedUrl
    /\ given.www = 2
    /\ given.base # toLowerCase(given.base)
    /\ given.scheme # toLowerCase(given.scheme)
    /\ Len(given.fragment) > 0
    /\ KeyHost(normalized) = Str_www \o toLowerCase(given.base)

(***************************************************************************)
(* C5. A string that does not parse is its own key, so that two such       *)
(* strings are duplicates of each other only when they are equal.          *)
(***************************************************************************)
\* C5: an unparseable string is in seen as itself; unequal ones are both kept
C5_UnparseableIsOwnKey ==
    /\ \A i \in 1..(idx - 1) : Unparseable(urls[i]) => urls[i] \in seen
    /\ dpc = "done" =>
         \A i, j \in 1..Len(urls) :
            (Unparseable(urls[i]) /\ Unparseable(urls[j]) /\ urls[i] # urls[j])
               => \E m, n \in 1..Len(unique) :
                     m # n /\ unique[m] = urls[i] /\ unique[n] = urls[j]

\* two unequal unparseable strings and a repeated one went through the loop
C5_Witness ==
    /\ dpc = "done"
    /\ Len(urls) = 3
    /\ \A i \in 1..3 : Unparseable(urls[i])
    /\ urls[1] # urls[2]
    /\ toLowerCase(urls[1]) = toLowerCase(urls[2])
    /\ urls[3] = urls[1]
    /\ unique = <<urls[1], urls[2]>>

(***************************************************************************)
(* cleanWhitespace                                                         *)
(***************************************************************************)
\* the white space of String.prototype.trim that the model's texts are written with
WhiteSpace == {" ", "\n", "\t"}

RECURSIVE TrimStart(_)
TrimStart(s) == IF Len(s) > 0 /\ s[1] \in WhiteSpace THEN TrimStart(Tail(s)) ELSE s

RECURSIVE TrimEnd(_)
TrimEnd(s) ==
    IF Len(s) > 0 /\ s[Len(s)] \in WhiteSpace THEN TrimEnd(SliceTo(s, Len(s) - 1)) ELSE s

\* String.prototype.trim
trim(s) == TrimEnd(TrimStart(s))

\* the length of the run of c that s starts with
RECURSIVE RunLength(_, _)
RunLength(s, c) ==
    IF Len(s) > 0 /\ s[1] = c THEN 1 + RunLength(Tail(s), c) ELSE 0

RECURSIVE ReplaceRuns(_, _, _, _)
\* s.replace(/c{atLeast,}/g, by): every maximal run of atLeast or more c becomes by
ReplaceRuns(s, c, atLeast, by) ==
    IF Len(s) = 0 THEN <<>>
    ELSE LET n == RunLength(s, c)
         IN IF n >= atLeast THEN by \o ReplaceRuns(SliceFrom(s, n), c, atLeast, by)
            ELSE IF n > 0 THEN SliceTo(s, n) \o ReplaceRuns(SliceFrom(s, n), c, atLeast, by)
            ELSE <<s[1]>> \o ReplaceRuns(Tail(s), c, atLeast, by)

\* result.split("\n").map((line) => line.trim()).join("\n")
TrimLines(s) ==
    LET lines == Split(s, "\n")
    IN Join([i \in 1..Len(lines) |-> trim(lines[i])], <<"\n">>)

cleanWhitespace(t) ==
    LET r1 == ReplaceRuns(t, "\n", 3, <<"\n", "\n">>)
        r2 == ReplaceRuns(r1, " ", 2, <<" ">>)
        r3 == TrimLines(r2)
    IN trim(r3)

(***************************************************************************)
(* truncateAtBoundary                                                      *)
(***************************************************************************)
\* "\n\n[Content truncated...]"
MarkerPlain == <<"\n","\n">> \o <<"[","C","o","n","t","e","n","t"," ","t","r","u","n","c","a","t","e","d",".",".",".","]">>

\* "...\n\n[Content truncated...]"
MarkerDots == <<".", ".", ".">> \o MarkerPlain

\* Fits with a strict comparison: a text of exactly maxChars characters is cut
FitsStrictly(t, mc) == Len(t) < mc

\* text.length <= maxChars
Fits(t, mc) == Len(t) <= mc

\* pos > maxChars * 0.7 (tenths = 7) and pos > maxChars * 0.8 (tenths = 8). The
\* product is computed in integers, which agrees with the double product for
\* every maxChars below 90.
Beyond(pos, mc, tenths) == 10 * pos > tenths * mc

Max2(a, b) == IF a >= b THEN a ELSE b

truncateAtBoundary(t, mc) ==
    IF Fits(t, mc) THEN t
    ELSE
    LET truncated == SliceTo(t, mc)
        lastPara == lastIndexOf(truncated, <<"\n", "\n">>)
        lastSentence == Max2(lastIndexOf(truncated, <<".", " ">>),
                             Max2(lastIndexOf(truncated, <<"!", " ">>),
                                  lastIndexOf(truncated, <<"?", " ">>)))
        lastSpace == lastIndexOf(truncated, <<" ">>)
    IN IF Beyond(lastPara, mc, 7)
       THEN trim(SliceTo(truncated, lastPara)) \o MarkerPlain
       ELSE IF Beyond(lastSentence, mc, 7)
       THEN trim(SliceTo(truncated, lastSentence + 1)) \o MarkerPlain
       ELSE IF Beyond(lastSpace, mc, 8)
       THEN trim(SliceTo(truncated, lastSpace)) \o MarkerDots
       ELSE trim(truncated) \o MarkerDots

(***************************************************************************)
(* extractContent. The document is what its two parsers make of it:        *)
(*   empty    the html string is ""                                        *)
(*   article  reader.parse()?.textContent: a string, Null (no article), or *)
(*            Throws (parseHTML or Readability threw)                      *)
(*   body     document.body?.textContent || "" once fallbackExtract has    *)
(*            removed the boilerplate elements, or Throws                  *)
(***************************************************************************)
\* BoundTo without the cut: the text is returned whole
BoundToWhole(cleaned, mc) == cleaned

\* cleaned.length > maxChars ? truncateAtBoundary(cleaned, maxChars) : cleaned
BoundTo(cleaned, mc) ==
    IF Len(cleaned) > mc THEN truncateAtBoundary(cleaned, mc) ELSE cleaned

\* fallbackExtract without its catch: the exception reaches the caller
fallbackExtractRethrows(h, mc) ==
    IF h.body = Throws THEN Throws
    ELSE BoundTo(cleanWhitespace(h.body), mc)

fallbackExtract(h, mc) ==
    IF h.body = Throws THEN <<>>
    ELSE BoundTo(cleanWhitespace(h.body), mc)

extractContent(h, mc) ==
    IF h.empty THEN <<>>
    ELSE IF h.article = Throws THEN fallbackExtract(h, mc)
    ELSE IF h.article # Null /\ Len(h.article) > 0
         THEN BoundTo(cleanWhitespace(h.article), mc)
         ELSE fallbackExtract(h, mc)

(***************************************************************************)
(* The texts the content functions are called on.                          *)
(***************************************************************************)
MaxTextLen == 6
MaxChars == 10

\* every string of at most MaxTextLen characters over a letter and the white space
RawTexts == UNION {[1..n -> {"a"} \cup WhiteSpace] : n \in 0..MaxTextLen}

\* t with the token written over it at the 0-based position pos, where it fits
Overwrite(t, pos, token) ==
    IF pos >= 0 /\ pos + Len(token) <= Len(t)
    THEN [i \in 1..Len(t) |->
            IF i > pos /\ i <= pos + Len(token) THEN token[i - pos] ELSE t[i]]
    ELSE t

Letters(n) == [i \in 1..n |-> "a"]

SentenceEnds == {<<".", " ">>, <<"!", " ">>, <<"?", " ">>}

\* the lengths of interest around a limit of mc characters
LengthsAround(mc) == {n \in {0, mc - 1, mc, mc + 1, mc + 3} : n >= 0}

\* a run of letters with at most one space, one sentence end and one paragraph
\* break written into it, anywhere
MarkedTexts(mc) ==
    {Overwrite(Overwrite(Overwrite(Letters(n), w, <<" ">>), s, e), p, <<"\n", "\n">>) :
        n \in LengthsAround(mc), w \in -1..(MaxChars - 1), s \in -1..(MaxChars - 1),
        e \in SentenceEnds, p \in -1..(MaxChars - 1)}

Limits == {0, MaxChars \div 2, MaxChars}

(***************************************************************************)
(* Specification of cleanWhitespace.                                       *)
(***************************************************************************)
InitClean ==
    /\ text \in RawTexts
    /\ html = Idle
    /\ maxChars = 0
    /\ out = Idle
    /\ cpc = "call"
    /\ UrlIdle
    /\ DedupIdle
    /\ ToolIdle

CleanWhitespace ==
    /\ cpc = "call"
    /\ out' = cleanWhitespace(text)
    /\ cpc' = "cleaned"
    /\ UNCHANGED <<text, html, maxChars, urlVars, dedupVars, toolVars>>

NextClean == CleanWhitespace

SpecClean == InitClean /\ [][NextClean]_vars

(***************************************************************************)
(* Specification of truncateAtBoundary.                                    *)
(***************************************************************************)
InitTruncate ==
    /\ maxChars \in Limits
    /\ text \in MarkedTexts(maxChars)
    /\ html = Idle
    /\ out = Idle
    /\ cpc = "call"
    /\ UrlIdle
    /\ DedupIdle
    /\ ToolIdle

TruncateAtBoundary ==
    /\ cpc = "call"
    /\ out' = truncateAtBoundary(text, maxChars)
    /\ cpc' = "truncated"
    /\ UNCHANGED <<text, html, maxChars, urlVars, dedupVars, toolVars>>

NextTruncate == TruncateAtBoundary

SpecTruncate == InitTruncate /\ [][NextTruncate]_vars

(***************************************************************************)
(* Specification of extractContent.                                        *)
(***************************************************************************)
BodyTexts == {<<>>, <<"b"," ","b">>, <<" ","b","\n"," ","\n","\n"," ","b","."," ","b"," "," ","b"," ">>, <<"b","b","b","b","b","b","b","b","b","b","b","b","b","b">>}

Documents(mc) ==
    [empty : {FALSE}, article : MarkedTexts(mc) \cup {Null, Throws},
     body : BodyTexts \cup {Throws}]
    \cup {[empty |-> TRUE, article |-> Null, body |-> <<>>]}

InitExtract ==
    /\ maxChars \in Limits
    /\ html \in Documents(maxChars)
    /\ text = Idle
    /\ out = Idle
    /\ cpc = "call"
    /\ UrlIdle
    /\ DedupIdle
    /\ ToolIdle

\* control reaches one of the two calls of fallbackExtract: Readability threw,
\* or article?.textContent is not truthy
UsesFallback(h) ==
    /\ ~h.empty
    /\ (h.article = Throws \/ h.article = Null \/ Len(h.article) = 0)

\* extractContent up to its return or to its call of fallbackExtract
ExtractContent ==
    /\ cpc = "call"
    /\ IF UsesFallback(html)
       THEN cpc' = "fallback" /\ out' = out
       ELSE cpc' = "extracted" /\ out' = extractContent(html, maxChars)
    /\ UNCHANGED <<text, html, maxChars, urlVars, dedupVars, toolVars>>

\* the call of fallbackExtract, whose value extractContent returns
FallbackExtract ==
    /\ cpc = "fallback"
    /\ out' = fallbackExtract(html, maxChars)
    /\ cpc' = "extracted"
    /\ UNCHANGED <<text, html, maxChars, urlVars, dedupVars, toolVars>>

NextExtract == ExtractContent \/ FallbackExtract

SpecExtract == InitExtract /\ [][NextExtract]_vars

(***************************************************************************)
(* C6. For a text longer than maxChars the cut is that of the first tier   *)
(* whose gate holds: the last paragraph break at a position >= 70% of      *)
(* maxChars, else the last sentence end at a position >= 70%, else the     *)
(* last space at a position >= 80%, else the raw cut; a boundary exactly   *)
(* at its threshold is accepted.                                           *)
(***************************************************************************)
AtLeast(pos, mc, tenths) == pos >= 0 /\ 10 * pos >= tenths * mc

LastSentenceEnd(w) ==
    Max2(lastIndexOf(w, <<".", " ">>),
         Max2(lastIndexOf(w, <<"!", " ">>), lastIndexOf(w, <<"?", " ">>)))

ClaimedCut(t, mc) ==
    LET w == SliceTo(t, mc)
        para == lastIndexOf(w, <<"\n", "\n">>)
        sentence == LastSentenceEnd(w)
        space == lastIndexOf(w, <<" ">>)
    IN IF AtLeast(para, mc, 7) THEN trim(SliceTo(w, para)) \o MarkerPlain
       ELSE IF AtLeast(sentence, mc, 7) THEN trim(SliceTo(w, sentence + 1)) \o MarkerPlain
       ELSE IF AtLeast(space, mc, 8) THEN trim(SliceTo(w, space)) \o MarkerDots
       ELSE trim(w) \o MarkerDots

\* C6: the result is the cut of the first tier whose gate (>=) holds
C6_TierAcceptedAtThreshold ==
    (cpc = "truncated" /\ Len(text) > maxChars) => out = ClaimedCut(text, maxChars)

(***************************************************************************)
(* C7. A text of at most maxChars characters, one of exactly maxChars      *)
(* included, is returned unchanged, with no marker.                        *)
(***************************************************************************)
\* C7: a text of at most maxChars characters comes back as it is
C7_ShortTextUnchanged ==
    (cpc = "truncated" /\ Len(text) <= maxChars) => out = text

\* a text of exactly maxChars characters that holds a paragraph break came back whole
C7_Witness ==
    /\ cpc = "truncated"
    /\ maxChars > 0
    /\ Len(text) = maxChars
    /\ lastIndexOf(text, <<"\n", "\n">>) > 0
    /\ out = text

(***************************************************************************)
(* C8. The output of cleanWhitespace holds no run of 3 or more newlines    *)
(* and no run of 2 or more spaces, and neither starts nor ends with white  *)
(* space.                                                                  *)
(***************************************************************************)
HasRun(t, c, n) ==
    \E i \in 1..(Len(t) - n + 1) : \A k \in 0..(n - 1) : t[i + k] = c

\* C8: no 3 newlines in a row, no 2 spaces in a row, no white space at the ends
C8_CleanedHasNoRuns ==
    cpc = "cleaned" =>
        /\ ~HasRun(out, "\n", 3)
        /\ ~HasRun(out, " ", 2)
        /\ Len(out) > 0 => (out[1] \notin WhiteSpace /\ out[Len(out)] \notin WhiteSpace)

(***************************************************************************)
(* C9. The length of extractContent's result is at most maxChars plus the  *)
(* 27 characters of the longest marker; when the normalized text is longer *)
(* than maxChars the result ends with "[Content truncated...]", and when   *)
(* it is not the result is the normalized text.                            *)
(***************************************************************************)
\* the text of the strategy whose result is returned
StrategyText(h) ==
    IF h.empty THEN <<>>
    ELSE IF h.article \notin {Null, Throws, <<>>} THEN h.article
    ELSE IF h.body = Throws THEN <<>>
    ELSE h.body

\* C9: length at most maxChars + 27; marked when cut, the normalized text otherwise
C9_LengthBoundedAndMarked ==
    cpc = "extracted" =>
        LET normal == cleanWhitespace(StrategyText(html))
        IN /\ Len(MarkerDots) = 27
           /\ Len(out) <= maxChars + 27
           /\ Len(normal) > maxChars => endsWith(out, <<"[","C","o","n","t","e","n","t"," ","t","r","u","n","c","a","t","e","d",".",".",".","]">>)
           /\ Len(normal) <= maxChars => out = normal

\* a text was cut at maxChars itself and the result has the greatest length allowed
C9_Witness ==
    /\ cpc = "extracted"
    /\ maxChars > 0
    /\ Len(cleanWhitespace(StrategyText(html))) > maxChars
    /\ Len(out) = maxChars + 27
    /\ endsWith(out, MarkerDots)

(***************************************************************************)
(* extractTitle. The document is what parseHTML and the selectors make of  *)
(* it:                                                                     *)
(*   parses  FALSE when parseHTML throws                                   *)
(*   title   textContent of the first title element, Null without one      *)
(*   h1s     textContent of the h1 elements, in document order             *)
(*   og      the content attribute of the first meta[property="og:title"], *)
(*           NoAttribute when the element has none, Null without element   *)
(***************************************************************************)
NoAttribute == <<"no attribute">>

\* x?.trim() is truthy
TrimsToText(x) == x \notin {Null, NoAttribute} /\ Len(trim(x)) > 0

\* FirstH1 skipping blank headings: the first h1 that holds text
FirstH1WithText(h) ==
    IF \E i \in 1..Len(h.h1s) : TrimsToText(h.h1s[i])
    THEN h.h1s[CHOOSE i \in 1..Len(h.h1s) :
                   TrimsToText(h.h1s[i]) /\ \A j \in 1..(i - 1) : ~TrimsToText(h.h1s[j])]
    ELSE Null

\* document.querySelector("h1")?.textContent
FirstH1(h) == IF Len(h.h1s) = 0 THEN Null ELSE h.h1s[1]

extractTitle(h) ==
    IF ~h.parses THEN Null
    ELSE IF TrimsToText(h.title) THEN trim(h.title)
    ELSE IF TrimsToText(FirstH1(h)) THEN trim(FirstH1(h))
    ELSE IF h.og # Null /\ TrimsToText(h.og) THEN trim(h.og)
    ELSE Null

MaxH1 == 2

TitleTexts == {<<>>, <<" ">>, <<" ","T","\n">>}
H1Texts == {<<>>, <<" ","\t">>, <<" ","H"," ">>, <<"G">>}
OgTexts == {<<>>, <<" ">>, <<" ","O"," ">>}

TitledDocuments ==
    [parses : {TRUE}, title : TitleTexts \cup {Null},
     h1s : UNION {[1..n -> H1Texts] : n \in 0..MaxH1},
     og : OgTexts \cup {Null, NoAttribute}]
    \cup {[parses |-> FALSE, title |-> Null, h1s |-> <<>>, og |-> Null]}

(***************************************************************************)
(* Specification of extractTitle.                                          *)
(***************************************************************************)
InitTitle ==
    /\ html \in TitledDocuments
    /\ text = Idle
    /\ maxChars = 0
    /\ out = Idle
    /\ cpc = "call"
    /\ UrlIdle
    /\ DedupIdle
    /\ ToolIdle

ExtractTitle ==
    /\ cpc = "call"
    /\ out' = extractTitle(html)
    /\ cpc' = "titled"
    /\ UNCHANGED <<text, html, maxChars, urlVars, dedupVars, toolVars>>

NextTitle == ExtractTitle

SpecTitle == InitTitle /\ [][NextTitle]_vars

(***************************************************************************)
(* C10. extractTitle returns the first candidate that is not empty once    *)
(* trimmed, in the order title element, first h1 element, og:title         *)
(* content; a missing or blank candidate falls through; the result is null *)
(* when all three are missing or blank or the document does not parse.     *)
(***************************************************************************)
\* a candidate trimmed, the empty string standing for a missing one
Candidate(x) == IF x \in {Null, NoAttribute} THEN <<>> ELSE trim(x)

\* C10: the first of title, first h1, og:title content that holds text, else null
C10_FirstCandidateWithText ==
    cpc = "titled" =>
        /\ ~html.parses => out = Null
        /\ html.parses =>
            LET t == Candidate(html.title)
                h == Candidate(IF Len(html.h1s) > 0 THEN html.h1s[1] ELSE Null)
                o == Candidate(html.og)
            IN /\ Len(t) > 0 => out = t
               /\ (Len(t) = 0 /\ Len(h) > 0) => out = h
               /\ (Len(t) = 0 /\ Len(h) = 0 /\ Len(o) > 0) => out = o
               /\ (Len(t) = 0 /\ Len(h) = 0 /\ Len(o) = 0) => out = Null

\* a blank title and a blank first h1 fell through to og:title, past a second h1
C10_Witness ==
    /\ cpc = "titled"
    /\ html.parses
    /\ html.title = <<" ">>
    /\ Len(html.h1s) = 2
    /\ ~TrimsToText(html.h1s[1])
    /\ TrimsToText(html.h1s[2])
    /\ html.og = <<" ","O"," ">>
    /\ out = <<"O">>

(***************************************************************************)
(* C11. extractContent is total and tries its strategies in a fixed order: *)
(* an empty input gives ""; text of the primary strategy is returned       *)
(* normalized and truncated without the fallback being run; when the       *)
(* primary strategy throws or yields nothing the fallback's text is        *)
(* returned, normalized and truncated the same way; when the fallback      *)
(* fails too the result is "". No exception reaches the caller.            *)
(***************************************************************************)
\* normalization, then truncation
Bounded(t, mc) == truncateAtBoundary(cleanWhitespace(t), mc)

PrimaryHasText(h) == h.article \notin {Null, Throws} /\ h.article # <<>>

\* C11: the fallback runs only when the primary strategy gave no text, and the
\* result is "", the primary text, the fallback text or "" in that order
C11_StrategiesInOrder ==
    /\ cpc = "fallback" => (~html.empty /\ ~PrimaryHasText(html))
    /\ cpc = "extracted" =>
        /\ out # Throws
        /\ html.empty => out = <<>>
        /\ (~html.empty /\ PrimaryHasText(html)) => out = Bounded(html.article, maxChars)
        /\ (~html.empty /\ ~PrimaryHasText(html) /\ html.body # Throws) =>
               out = Bounded(html.body, maxChars)
        /\ (~html.empty /\ ~PrimaryHasText(html) /\ html.body = Throws) => out = <<>>

\* the primary strategy threw and the fallback's text came back, cut
C11_Witness ==
    /\ cpc = "extracted"
    /\ html.article = Throws
    /\ html.body \notin {Throws, <<>>}
    /\ maxChars > 0
    /\ Len(cleanWhitespace(html.body)) > maxChars
    /\ out # <<>>
    /\ out[1] = "b"
    /\ endsWith(out, MarkerPlain)

(***************************************************************************)
(* The runtime the two tools run on. A promise settles with a value or     *)
(* with an exception; a value that is not there yet is Pending. The log    *)
(* holds the calls of fetch and of setTimeout and the events multiSearch   *)
(* waits for, in the order they happen.                                    *)
(***************************************************************************)
Pending == [pending |-> TRUE]
Returned(v) == [throws |-> FALSE, value |-> v]
Thrown(e) == [throws |-> TRUE, error |-> e]

RECURSIVE NumberToString(_)
\* `${n}` for a natural number
NumberToString(n) ==
    LET digits == <<"0","1","2","3","4","5","6","7","8","9">>
    IN IF n < 10 THEN <<digits[n + 1]>>
       ELSE NumberToString(n \div 10) \o <<digits[(n % 10) + 1]>>

\* s.includes(p)
includes(s, p) == lastIndexOf(s, p) >= 0

\* a string is truthy: neither null nor ""
Truthy(x) == x # Null /\ x # <<>>

\* m[k] = v on an object used as a map
Put(m, k, v) == [x \in (DOMAIN m) \cup {k} |-> IF x = k THEN v ELSE m[x]]

\* response.ok
Ok(status) == status >= 200 /\ status <= 299

\* what fetch rejects with when the signal of the request is aborted
AbortError == [name |-> "AbortError", message |-> <<"T","h","i","s"," ","o","p","e","r","a","t","i","o","n"," ","w","a","s"," ","a","b","o","r","t","e","d">>]

\* what fetch and response.text() reject with when the transport fails
TransportErrors ==
    {[name |-> "TypeError", message |-> <<"f","e","t","c","h"," ","f","a","i","l","e","d">>]}

(***************************************************************************)
(* fetchSinglePage                                                         *)
(***************************************************************************)
Str_HTTP == <<"H","T","T","P"," ">>
Str_NonHtml == <<"N","o","n","-","H","T","M","L"," ","c","o","n","t","e","n","t"," ","t","y","p","e",":"," ">>
Str_TimedOut == <<"R","e","q","u","e","s","t"," ","t","i","m","e","d"," ","o","u","t"," ","a","f","t","e","r"," ">>

\* contentType.includes("text/html") || contentType.includes("application/xhtml")
IsHtml(contentType) ==
    \/ includes(contentType, <<"t","e","x","t","/","h","t","m","l">>)
    \/ includes(contentType, <<"a","p","p","l","i","c","a","t","i","o","n","/","x","h","t","m","l">>)

Failed(message) == [content |-> Null, title |-> Null, error |-> message]

\* the value to return without reading the body, ReadBody when there is none
ReadBody == [read |-> TRUE]

\* Verdict with the content type looked at before the status
VerdictTypeFirst(response) ==
    LET contentType == IF response.contentType = Null THEN <<>> ELSE response.contentType
    IN IF ~IsHtml(contentType)
       THEN Failed(Str_NonHtml \o contentType)
       ELSE IF ~Ok(response.status) THEN Failed(Str_HTTP \o NumberToString(response.status))
       ELSE ReadBody

\* from the response to response.text()
Verdict(response) ==
    IF ~Ok(response.status) THEN Failed(Str_HTTP \o NumberToString(response.status))
    ELSE
    LET contentType == IF response.contentType = Null THEN <<>> ELSE response.contentType
    IN IF ~IsHtml(contentType)
       THEN Failed(Str_NonHtml \o contentType)
       ELSE ReadBody

\* the body read: content and title of the page
Extracted(page, mc) ==
    [content |-> extractContent(page, mc), title |-> extractTitle(page), error |-> Null]

\* Caught without the catch: the exception leaves fetchSinglePage
CaughtRethrown(error, seconds) == Thrown(error)

\* the catch of fetchSinglePage
Caught(error, seconds) ==
    IF error.name = "AbortError"
    THEN Returned(Failed(Str_TimedOut \o NumberToString(seconds) \o <<"s">>))
    ELSE Returned(Failed(error.message))

\* a call of fetchSinglePage at its first await: the timer set, the request sent
NewRequest ==
    [pc |-> "fetching", timer |-> "armed", expired |-> FALSE,
     response |-> Pending, page |-> Pending, thrown |-> Pending, result |-> Pending]

\* IssueFrom with a second request for the URL at k
IssueTwice(us, k, seconds) ==
    IF k > Len(us) THEN <<>>
    ELSE <<[op |-> "setTimeout", ms |-> seconds * 1000], [op |-> "fetch", url |-> us[k]],
           [op |-> "fetch", url |-> us[k]]>>

\* IssueFrom stopping after the URL at k: the others are not requested
IssueOnlyFirst(us, k, seconds) ==
    IF k > Len(us) THEN <<>>
    ELSE <<[op |-> "setTimeout", ms |-> seconds * 1000], [op |-> "fetch", url |-> us[k]]>>

RECURSIVE IssueFrom(_, _, _)
\* urls.map: for each URL in turn setTimeout, then fetch
IssueFrom(us, k, seconds) ==
    IF k > Len(us) THEN <<>>
    ELSE <<[op |-> "setTimeout", ms |-> seconds * 1000], [op |-> "fetch", url |-> us[k]]>>
         \o IssueFrom(us, k + 1, seconds)

(***************************************************************************)
(* fetchPages                                                              *)
(***************************************************************************)
\* the early return with the counts of one failure
EmptyFetchResultCounted ==
    [contents |-> <<>>, titles |-> <<>>, errors |-> <<>>, successCount |-> 0, errorCount |-> 1]

EmptyFetchResult ==
    [contents |-> <<>>, titles |-> <<>>, errors |-> <<>>, successCount |-> 0, errorCount |-> 0]

RECURSIVE Organize(_, _, _, _)
\* the loop over urls and results, from position k
Organize(us, results, k, acc) ==
    IF k > Len(us) THEN acc
    ELSE
    LET u == us[k]
        result == results[k]
    IN Organize(us, results, k + 1,
          IF Truthy(result.error)
          THEN [acc EXCEPT !.errors = Put(@, u, result.error)]
          ELSE [acc EXCEPT
                  !.contents = IF Truthy(result.content) THEN Put(@, u, result.content) ELSE @,
                  !.titles = IF Truthy(result.title) THEN Put(@, u, result.title) ELSE @])

FetchResult(us, results) ==
    LET maps == Organize(us, results, 1, [contents |-> <<>>, titles |-> <<>>, errors |-> <<>>])
    IN [contents |-> maps.contents, titles |-> maps.titles, errors |-> maps.errors,
        successCount |-> Cardinality(DOMAIN maps.contents),
        errorCount |-> Cardinality(DOMAIN maps.errors)]

(***************************************************************************)
(* The calls of fetchPages: up to MaxPages URLs, repeated ones included,   *)
(* and what the servers may answer.                                        *)
(***************************************************************************)
MaxPages == 2

\* "https://a.co/x", "https://www.a.co/x", "https://b.co/x"
Url_a == <<"h","t","t","p","s",":","/","/","a",".","c","o","/","x">>
Url_wwwa == <<"h","t","t","p","s",":","/","/","w","w","w",".","a",".","c","o","/","x">>
Url_b == <<"h","t","t","p","s",":","/","/","b",".","c","o","/","x">>

PageLists == UNION {[1..n -> {Url_a, Url_b}] : n \in 0..MaxPages}

Responses ==
    {[status |-> 200, contentType |-> <<"t","e","x","t","/","h","t","m","l",";"," ","c","h","a","r","s","e","t","=","u","t","f","-","8">>],
     [status |-> 200, contentType |-> <<"a","p","p","l","i","c","a","t","i","o","n","/","x","h","t","m","l","+","x","m","l">>],
     [status |-> 200, contentType |-> <<"a","p","p","l","i","c","a","t","i","o","n","/","j","s","o","n">>],
     [status |-> 204, contentType |-> Null],
     [status |-> 404, contentType |-> <<"t","e","x","t","/","h","t","m","l",";"," ","c","h","a","r","s","e","t","=","u","t","f","-","8">>],
     [status |-> 500, contentType |-> <<"a","p","p","l","i","c","a","t","i","o","n","/","j","s","o","n">>]}

\* a page with text and a title, a page with a title and no text, and a page
\* longer than the limit with no title
Pages ==
    {[empty |-> FALSE, article |-> <<"a"," "," ","a",".">>, body |-> <<"b">>,
      parses |-> TRUE, title |-> <<" ","T"," ">>, h1s |-> <<>>, og |-> Null],
     [empty |-> FALSE, article |-> Null, body |-> <<>>,
      parses |-> TRUE, title |-> <<"U">>, h1s |-> <<>>, og |-> Null],
     [empty |-> FALSE, article |-> Null, body |-> <<"b","b","b","b","b","b","b","b","b","b","b","b","b","b">>,
      parses |-> TRUE, title |-> Null, h1s |-> <<>>, og |-> Null]}

(***************************************************************************)
(* Specification of fetchPages.                                            *)
(***************************************************************************)
InitFetch ==
    /\ pageUrls \in PageLists
    /\ timeout \in {30}
    /\ pageMaxChars = MaxChars
    /\ reqs = Idle
    /\ fetched = Idle
    /\ fpc = "call"
    /\ log = Idle
    /\ UrlIdle
    /\ DedupIdle
    /\ ContentIdle
    /\ SearchIdle
    /\ OtherIdle

\* fetchPages up to its return for an empty list, or to await Promise.all
FetchPagesCall ==
    /\ fpc = "call"
    /\ IF Len(pageUrls) = 0
       THEN /\ fetched' = EmptyFetchResult
            /\ fpc' = "done"
            /\ UNCHANGED <<reqs, log>>
       ELSE /\ reqs' = [k \in 1..Len(pageUrls) |-> NewRequest]
            /\ log' = log \o IssueFrom(pageUrls, 1, timeout)
            /\ fpc' = "awaiting"
            /\ fetched' = fetched
    /\ UNCHANGED <<pageUrls, timeout, pageMaxChars, urlVars, dedupVars, contentVars, searchVars, otherVars>>

FetchStep == UNCHANGED <<pageUrls, timeout, pageMaxChars, fetched, fpc, log,
                         urlVars, dedupVars, contentVars, searchVars, otherVars>>

\* await fetch(...) resolves: the timer is cleared, status and content type
\* are looked at, and the body is asked for or the call returns
Respond(k, response) ==
    /\ fpc = "awaiting"
    /\ reqs[k].pc = "fetching"
    /\ reqs' = [reqs EXCEPT ![k] =
                  IF Verdict(response) = ReadBody
                  THEN [@ EXCEPT !.pc = "reading", !.timer = "cleared", !.response = response]
                  ELSE [@ EXCEPT !.pc = "settled", !.timer = "cleared", !.response = response,
                                 !.result = Returned(Verdict(response))]]
    /\ FetchStep

\* await fetch(...) rejects for a reason of the transport
FetchThrows(k, error) ==
    /\ fpc = "awaiting"
    /\ reqs[k].pc = "fetching"
    /\ reqs' = [reqs EXCEPT ![k] =
                  [@ EXCEPT !.pc = "settled", !.timer = "cleared", !.thrown = error,
                            !.result = Caught(error, timeout)]]
    /\ FetchStep

\* await response.text() resolves
BodyArrives(k, page) ==
    /\ fpc = "awaiting"
    /\ reqs[k].pc = "reading"
    /\ reqs' = [reqs EXCEPT ![k] =
                  [@ EXCEPT !.pc = "settled", !.page = page,
                            !.result = Returned(Extracted(page, pageMaxChars))]]
    /\ FetchStep

\* await response.text() rejects
BodyThrows(k, error) ==
    /\ fpc = "awaiting"
    /\ reqs[k].pc = "reading"
    /\ reqs' = [reqs EXCEPT ![k] =
                  [@ EXCEPT !.pc = "settled", !.thrown = error,
                            !.result = Caught(error, timeout)]]
    /\ FetchStep

\* timeout seconds have passed since the call and it has not returned: a timer
\* still set runs controller.abort(), on which fetch rejects with AbortError; a
\* timer cleared runs nothing
Expire(k) ==
    /\ fpc = "awaiting"
    /\ reqs[k].pc # "settled"
    /\ ~reqs[k].expired
    /\ reqs' = [reqs EXCEPT ![k] =
                  IF @.timer = "armed"
                  THEN [@ EXCEPT !.pc = "settled", !.timer = "fired", !.expired = TRUE,
                                 !.thrown = AbortError, !.result = Caught(AbortError, timeout)]
                  ELSE [@ EXCEPT !.expired = TRUE]]
    /\ FetchStep

\* Promise.all settles: it rejects with the first promise that rejects, and
\* resolves when all have resolved; the results are then organized
FetchPagesReturn ==
    /\ fpc = "awaiting"
    /\ \/ \A k \in 1..Len(reqs) : reqs[k].pc = "settled"
       \/ \E k \in 1..Len(reqs) : reqs[k].pc = "settled" /\ reqs[k].result.throws
    /\ IF \E k \in 1..Len(reqs) : reqs[k].pc = "settled" /\ reqs[k].result.throws
       THEN fpc' = "rejected" /\ fetched' = fetched
       ELSE /\ fpc' = "done"
            /\ fetched' = FetchResult(pageUrls, [k \in 1..Len(reqs) |-> reqs[k].result.value])
    /\ UNCHANGED <<pageUrls, timeout, pageMaxChars, reqs, log,
                   urlVars, dedupVars, contentVars, searchVars, otherVars>>

NextFetch ==
    \/ FetchPagesCall
    \/ \E k \in 1..Len(reqs) :
          \/ \E response \in Responses : Respond(k, response)
          \/ \E error \in TransportErrors : FetchThrows(k, error)
          \/ \E page \in Pages : BodyArrives(k, page)
          \/ \E error \in TransportErrors : BodyThrows(k, error)
          \/ Expire(k)
    \/ FetchPagesReturn

SpecFetch == InitFetch /\ [][NextFetch]_vars

(***************************************************************************)
(* C12. For every call of fetchPages and every combination of outcomes,    *)
(* successCount + errorCount is the number of URLs given, and the keys of  *)
(* contents and of errors are disjoint and together are the URLs given.    *)
(***************************************************************************)
\* C12: the counts add up to urls.length and every URL is a key of exactly one
\* of contents and errors
C12_EveryUrlInExactlyOneMap ==
    fpc = "done" =>
        LET successes == DOMAIN fetched.contents
            failures == DOMAIN fetched.errors
        IN /\ fetched.successCount + fetched.errorCount = Len(pageUrls)
           /\ successes \cap failures = {}
           /\ successes \cup failures = Range(pageUrls)

(***************************************************************************)
(* C13. A page fetch ends in one of five outcomes: success for a 2xx       *)
(* status with an HTML content type, the only case in which the body is    *)
(* read and extracted; "HTTP <status>" for any other status, whatever the  *)
(* content type; "Non-HTML content type: <type>" for a 2xx response that   *)
(* is not HTML; "Request timed out after <n>s" when the timer aborted the  *)
(* request; the message of the error for any other failure. An error       *)
(* never comes with content or a title.                                    *)
(***************************************************************************)
\* the content types of Responses that are HTML
HtmlTypes ==
    {<<"t","e","x","t","/","h","t","m","l",";"," ","c","h","a","r","s","e","t","=","u","t","f","-","8">>,
     <<"a","p","p","l","i","c","a","t","i","o","n","/","x","h","t","m","l","+","x","m","l">>}

TimedOutAfter(seconds) == Str_TimedOut \o NumberToString(seconds) \o <<"s">>

\* what the claim has a settled request report
Outcome(r) ==
    IF r.timer = "fired" THEN Failed(TimedOutAfter(timeout))
    ELSE IF r.thrown # Pending THEN Failed(r.thrown.message)
    ELSE IF r.response.status < 200 \/ r.response.status > 299
         THEN Failed(Str_HTTP \o NumberToString(r.response.status))
    ELSE IF r.response.contentType \notin HtmlTypes
         THEN Failed(Str_NonHtml \o
                     (IF r.response.contentType = Null THEN <<>> ELSE r.response.contentType))
    ELSE [content |-> extractContent(r.page, pageMaxChars),
          title |-> extractTitle(r.page), error |-> Null]

\* C13: each settled fetch reports the outcome of its case, reads the body only
\* of a 2xx HTML response, and reports no content or title with an error
C13_FiveOutcomes ==
    \A k \in 1..Len(reqs) :
        reqs[k].pc = "settled" =>
            /\ ~reqs[k].result.throws
            /\ reqs[k].result.value = Outcome(reqs[k])
            /\ reqs[k].page # Pending =>
                  (Ok(reqs[k].response.status) /\ reqs[k].response.contentType \in HtmlTypes)
            /\ reqs[k].result.value.error # Null =>
                  (reqs[k].result.value.content = Null /\ reqs[k].result.value.title = Null)

\* a 404 that came with an HTML content type was reported as HTTP 404, its body unread
C13_Witness ==
    \E k \in 1..Len(reqs) :
        /\ reqs[k].pc = "settled"
        /\ reqs[k].response # Pending
        /\ reqs[k].response.status = 404
        /\ reqs[k].response.contentType \in HtmlTypes
        /\ reqs[k].page = Pending
        /\ reqs[k].result.value = Failed(<<"H","T","T","P"," ","4","0","4">>)

(***************************************************************************)
(* C14. Each fetch is bounded by its own timeout: a fetch that has not     *)
(* reached its outcome (response received and body read) when its timeout  *)
(* expires is cancelled and reported with "Request timed out after <n>s".  *)
(***************************************************************************)
\* C14: a fetch whose timeout expired before it had its outcome is settled, with
\* the timeout message
C14_ExpiryCancelsUnsettledFetch ==
    \A k \in 1..Len(reqs) :
        reqs[k].expired =>
            /\ reqs[k].pc = "settled"
            /\ reqs[k].result.value = Failed(TimedOutAfter(timeout))

(***************************************************************************)
(* C15. What fetchPages reports for a URL is determined by the requests    *)
(* for that URL alone, whatever the other requests do, and fetchPages      *)
(* never rejects.                                                          *)
(***************************************************************************)
\* the positions of u in the list whose request reported an error
Failures(u) ==
    {k \in 1..Len(pageUrls) : pageUrls[k] = u /\ Truthy(reqs[k].result.value.error)}

\* the positions of u whose request reported no error and a value of the field
Successes(u, field) ==
    {k \in 1..Len(pageUrls) :
        /\ pageUrls[k] = u
        /\ ~Truthy(reqs[k].result.value.error)
        /\ Truthy(reqs[k].result.value[field])}

Last(S) == CHOOSE k \in S : \A j \in S : j <= k

\* C15: fetchPages never rejects, and at its return each map holds for a URL what
\* the last request for that URL reported for it, and nothing for any other key
C15_OwnRequestDecides ==
    /\ fpc # "rejected"
    /\ fpc = "done" =>
        /\ DOMAIN fetched.errors = {u \in Range(pageUrls) : Failures(u) # {}}
        /\ DOMAIN fetched.contents = {u \in Range(pageUrls) : Successes(u, "content") # {}}
        /\ DOMAIN fetched.titles = {u \in Range(pageUrls) : Successes(u, "title") # {}}
        /\ \A u \in DOMAIN fetched.errors :
              fetched.errors[u] = reqs[Last(Failures(u))].result.value.error
        /\ \A u \in DOMAIN fetched.contents :
              fetched.contents[u] = reqs[Last(Successes(u, "content"))].result.value.content
        /\ \A u \in DOMAIN fetched.titles :
              fetched.titles[u] = reqs[Last(Successes(u, "title"))].result.value.title

\* of two different URLs the first timed out and the second came back with
\* content and a title
C15_Witness ==
    /\ fpc = "done"
    /\ Len(pageUrls) = 2
    /\ pageUrls[1] # pageUrls[2]
    /\ reqs[1].timer = "fired"
    /\ DOMAIN fetched.errors = {pageUrls[1]}
    /\ fetched.errors[pageUrls[1]] = TimedOutAfter(timeout)
    /\ DOMAIN fetched.contents = {pageUrls[2]}
    /\ fetched.contents[pageUrls[2]] = <<"a"," ","a",".">>
    /\ fetched.titles[pageUrls[2]] = <<"T">>

(***************************************************************************)
(* deduplicateUrls as the function multiSearch calls.                      *)
(***************************************************************************)
RECURSIVE DedupFrom(_, _, _, _)
RECURSIVE DedupKey(_, _, _, _, _)
\* the body of the for-of loop at position k, key the key of that URL
DedupKey(us, k, seenKeys, uniqueUrls, key) ==
    IF key \notin seenKeys
    THEN DedupFrom(us, k + 1, seenKeys \cup {key}, Push(uniqueUrls, us[k], key))
    ELSE DedupFrom(us, k + 1, seenKeys, uniqueUrls)

\* the for-of loop from position k
DedupFrom(us, k, seenKeys, uniqueUrls) ==
    IF k > Len(us) THEN uniqueUrls
    ELSE DedupKey(us, k, seenKeys, uniqueUrls, normalizeUrl(us[k]))

deduplicateUrls(us) == DedupFrom(us, 1, {}, <<>>)

(***************************************************************************)
(* parseDdgHtmlResults. The page is what querySelectorAll(".result") makes *)
(* of it, a sequence of divs:                                              *)
(*   a        the div holds an a.result__a                                 *)
(*   href     its href attribute, Null without one                         *)
(*   title    its textContent                                              *)
(*   snippet  textContent of the .result__snippet, Null without one        *)
(***************************************************************************)
Str_ddgRedirect == <<"h","t","t","p","s",":","/","/","d","u","c","k","d","u","c","k","g","o",".","c","o","m","/","y",".","j","s","?">>

RECURSIVE ParseCountingSkipped(_, _, _, _)
\* ParseFrom with the cap on the entries looked at instead of those kept
ParseCountingSkipped(divs, k, results, maxResults) ==
    IF k > Len(divs) \/ k > maxResults THEN results
    ELSE
    LET div == divs[k]
        href == IF div.href = Null THEN <<>> ELSE div.href
        title == trim(div.title)
        snippet == IF div.snippet = Null THEN <<>> ELSE trim(div.snippet)
    IN IF div.a /\ href # <<>> /\ ~startsWith(href, Str_ddgRedirect) /\ title # <<>>
       THEN ParseCountingSkipped(divs, k + 1,
                Append(results, [url |-> href, title |-> title, snippet |-> snippet]), maxResults)
       ELSE ParseCountingSkipped(divs, k + 1, results, maxResults)

RECURSIVE ParseFrom(_, _, _, _)
\* the loop over the divs from position k
ParseFrom(divs, k, results, maxResults) ==
    IF k > Len(divs) \/ Len(results) >= maxResults THEN results
    ELSE
    LET div == divs[k]
        href == IF div.href = Null THEN <<>> ELSE div.href
        title == trim(div.title)
        snippet == IF div.snippet = Null THEN <<>> ELSE trim(div.snippet)
    IN IF ~div.a THEN ParseFrom(divs, k + 1, results, maxResults)
       ELSE IF href = <<>> \/ startsWith(href, Str_ddgRedirect)
            THEN ParseFrom(divs, k + 1, results, maxResults)
       ELSE IF title # <<>>
            THEN ParseFrom(divs, k + 1,
                           Append(results, [url |-> href, title |-> title, snippet |-> snippet]),
                           maxResults)
       ELSE ParseFrom(divs, k + 1, results, maxResults)

parseDdgHtmlResults(divs, maxResults) == ParseFrom(divs, 1, <<>>, maxResults)

(***************************************************************************)
(* searchSingleQuery                                                       *)
(***************************************************************************)
\* SearchCaught without the catch: the exception leaves searchSingleQuery
SearchCaughtRethrown(error) == Thrown(error)

\* the catch of searchSingleQuery
SearchCaught(error) == Returned(<<>>)

\* the return for a response that is not ok
SearchRefused(status) == Returned(<<>>)

(***************************************************************************)
(* multiSearch                                                             *)
(***************************************************************************)
INTER_QUERY_DELAY_MS == 400

\* DelayBefore for every query, the first included
DelayBeforeEvery(i) == TRUE

\* if (i > 0) await delay(...), i the 0-based index of the query
DelayBefore(i) == i > 0

EmptySearchResult == [urls |-> <<>>, snippets |-> <<>>, titles |-> <<>>, queryResults |-> <<>>]

\* KeepFirst without its test: the last occurrence wins
KeepLast(m, k, v) == Put(m, k, v)

\* if (!(k in m)) m[k] = v
KeepFirst(m, k, v) == IF k \in DOMAIN m THEN m ELSE Put(m, k, v)

RECURSIVE CollectResults(_, _, _)
\* the loop over the results of one query, from position k
CollectResults(results, k, acc) ==
    IF k > Len(results) THEN acc
    ELSE
    LET result == results[k]
    IN IF result.url = <<>> THEN CollectResults(results, k + 1, acc)
       ELSE CollectResults(results, k + 1,
              [urlToSnippet |-> KeepFirst(acc.urlToSnippet, result.url, result.snippet),
               urlToTitle |-> KeepFirst(acc.urlToTitle, result.url, result.title),
               queryToUrls |-> acc.queryToUrls,
               queryUrls |-> Append(acc.queryUrls, result.url),
               allUrls |-> Append(acc.allUrls, result.url)])

RECURSIVE CollectQueries(_, _, _, _)
\* the loop over the queries, from position k
CollectQueries(qs, all, k, acc) ==
    IF k > Len(qs) THEN acc
    ELSE
    LET inner == CollectResults(all[k], 1, [acc EXCEPT !.queryUrls = <<>>])
    IN CollectQueries(qs, all, k + 1,
                      [inner EXCEPT !.queryToUrls = Put(@, qs[k], inner.queryUrls)])

\* m[k] || ""
OrEmpty(m, k) == IF k \in DOMAIN m /\ Truthy(m[k]) THEN m[k] ELSE <<>>

\* the object multiSearch returns
Assemble(collected, uniqueUrls) ==
    [urls |-> uniqueUrls,
     snippets |-> [u \in Range(uniqueUrls) |-> OrEmpty(collected.urlToSnippet, u)],
     titles |-> [u \in Range(uniqueUrls) |-> OrEmpty(collected.urlToTitle, u)],
     queryResults |-> collected.queryToUrls]

\* const uniqueUrls = deduplicateUrls(allUrls), and the return
Deduplicate(collected) == Assemble(collected, deduplicateUrls(collected.allUrls))

\* multiSearch from the end of the search loop to its return
SearchResult(qs, all) ==
    Deduplicate(CollectQueries(qs, all, 1,
                    [urlToSnippet |-> <<>>, urlToTitle |-> <<>>, queryToUrls |-> <<>>,
                     queryUrls |-> <<>>, allUrls |-> <<>>]))

(***************************************************************************)
(* The calls of multiSearch: up to MaxQueries queries, repeated ones       *)
(* included, and what the search engine may answer.                        *)
(***************************************************************************)
MaxQueries == 2

QueryLists == UNION {[1..n -> {"query1", "query2"}] : n \in 0..MaxQueries}

\* pages of results: a URL twice with different text, the same page under
\* www., a redirect link of the search engine, a div without link, a link with
\* blank text, a link without href
SearchPages ==
    LET a == [a |-> TRUE, href |-> Url_a, title |-> <<" ","A"," ">>, snippet |-> <<" ","s"," ">>]
        a2 == [a |-> TRUE, href |-> Url_a, title |-> <<"A","2">>, snippet |-> <<"s","2">>]
        wwwa == [a |-> TRUE, href |-> Url_wwwa, title |-> <<"W">>, snippet |-> Null]
        b == [a |-> TRUE, href |-> Url_b, title |-> <<"B">>, snippet |-> <<"t">>]
        ad == [a |-> TRUE, href |-> Str_ddgRedirect \o <<"a","d">>, title |-> <<"A","d">>, snippet |-> <<"x">>]
        nolink == [a |-> FALSE, href |-> Null, title |-> <<>>, snippet |-> <<"n">>]
        notitle == [a |-> TRUE, href |-> Url_b, title |-> <<" ">>, snippet |-> <<"n">>]
        nohref == [a |-> TRUE, href |-> Null, title |-> <<"N">>, snippet |-> <<"n">>]
    IN {<<>>,
        <<a>>,
        <<wwwa, b>>,
        <<a2, a>>,
        <<ad, b, a>>,
        <<nolink, notitle, wwwa>>,
        <<b, nohref, a2>>}

(***************************************************************************)
(* Specification of multiSearch.                                           *)
(***************************************************************************)
InitSearch ==
    /\ queries \in QueryLists
    /\ resultsPerQuery \in {1, 3}
    /\ qi = 0
    /\ allResults = Idle
    /\ failed = {}
    /\ found = Idle
    /\ spc = "call"
    /\ log = Idle
    /\ UrlIdle
    /\ DedupIdle
    /\ ContentIdle
    /\ FetchIdle
    /\ OtherIdle

SearchStep == UNCHANGED <<queries, resultsPerQuery, urlVars, dedupVars, contentVars, fetchVars, otherVars>>

\* the search loop from its test with i = n to its next await, or past its end
\* to the return of multiSearch
EnterLoop(n, events, results) ==
    /\ qi' = n
    /\ allResults' = results
    /\ IF n < Len(queries)
       THEN /\ found' = found
            /\ IF DelayBefore(n)
               THEN /\ spc' = "delaying"
                    /\ log' = Append(events, [op |-> "setTimeout", ms |-> INTER_QUERY_DELAY_MS])
               ELSE /\ spc' = "searching"
                    /\ log' = Append(events, [op |-> "fetch", q |-> queries[n + 1]])
       ELSE /\ found' = SearchResult(queries, results)
            /\ spc' = "done"
            /\ log' = events

\* searchSingleQuery has settled: multiSearch rejects with its exception, or
\* pushes its results and goes round the loop
Completed(outcome) ==
    IF outcome.throws
    THEN /\ spc' = "rejected"
         /\ log' = Append(log, [op |-> "completed"])
         /\ UNCHANGED <<qi, allResults, found>>
    ELSE EnterLoop(qi + 1, Append(log, [op |-> "completed"]), Append(allResults, outcome.value))

\* multiSearch up to its return for an empty list, or to its first await
MultiSearchCall ==
    /\ spc = "call"
    /\ IF Len(queries) = 0
       THEN /\ found' = EmptySearchResult
            /\ spc' = "done"
            /\ UNCHANGED <<qi, allResults, log>>
       ELSE EnterLoop(0, log, <<>>)
    /\ failed' = failed
    /\ SearchStep

\* the timer of delay runs: the request of the query is sent
DelayElapses ==
    /\ spc = "delaying"
    /\ spc' = "searching"
    /\ log' = log \o <<[op |-> "timer"], [op |-> "fetch", q |-> queries[qi + 1]]>>
    /\ UNCHANGED <<qi, allResults, failed, found>>
    /\ SearchStep

\* await fetch(...) rejects
SearchThrows(error) ==
    /\ spc = "searching"
    /\ failed' = failed \cup {qi + 1}
    /\ Completed(SearchCaught(error))
    /\ SearchStep

\* await fetch(...) resolves
SearchResponds(status) ==
    /\ spc = "searching"
    /\ IF Ok(status)
       THEN /\ spc' = "reading"
            /\ UNCHANGED <<qi, allResults, failed, found, log>>
       ELSE /\ failed' = failed \cup {qi + 1}
            /\ Completed(SearchRefused(status))
    /\ SearchStep

\* await response.text() resolves and the page is parsed
SearchBodyArrives(page) ==
    /\ spc = "reading"
    /\ failed' = failed
    /\ Completed(Returned(parseDdgHtmlResults(page, resultsPerQuery)))
    /\ SearchStep

\* await response.text() rejects
SearchBodyThrows(error) ==
    /\ spc = "reading"
    /\ failed' = failed \cup {qi + 1}
    /\ Completed(SearchCaught(error))
    /\ SearchStep

NextSearch ==
    \/ MultiSearchCall
    \/ DelayElapses
    \/ \E error \in TransportErrors : SearchThrows(error)
    \/ \E status \in {200, 429} : SearchResponds(status)
    \/ \E page \in SearchPages : SearchBodyArrives(page)
    \/ \E error \in TransportErrors : SearchBodyThrows(error)

SpecSearch == InitSearch /\ [][NextSearch]_vars

(***************************************************************************)
(* C16. multiSearch sends its requests one at a time in the order of the   *)
(* queries: the request of a query is sent only after the request of the   *)
(* query before it has completed, successfully or not, and the delay of    *)
(* 400 ms started then has elapsed; nothing precedes the first request,    *)
(* and exactly one delay precedes every later one.                         *)
(***************************************************************************)
Requests == {j \in 1..Len(log) : log[j].op = "fetch"}

RECURSIVE Flatten(_, _)
Flatten(lists, k) == IF k > Len(lists) THEN <<>> ELSE lists[k] \o Flatten(lists, k + 1)

UrlsOf(results) == [k \in 1..Len(results) |-> results[k].url]

FirstWithKey(flat, u) ==
    CHOOSE j \in 1..Len(flat) :
        /\ normalizeUrl(flat[j].url) = normalizeUrl(u)
        /\ \A k \in 1..(j - 1) : normalizeUrl(flat[k].url) # normalizeUrl(u)

\* C17: urls, and the keys and values of snippets and titles, at the return
C17_FirstOccurrenceMetadata ==
    (spc = "done" /\ Len(queries) > 0) =>
        LET flat == Flatten(allResults, 1)
            flatUrls == UrlsOf(flat)
        IN /\ found.urls = AtIndices(flatUrls, FirstOccurrences(flatUrls), 1)
           /\ DOMAIN found.snippets = Range(found.urls)
           /\ DOMAIN found.titles = Range(found.urls)
           /\ \A u \in Range(found.urls) :
                 /\ found.titles[u] = flat[FirstWithKey(flat, u)].title
                 /\ found.snippets[u] = flat[FirstWithKey(flat, u)].snippet

\* a URL came back twice with different titles and once more with www., over
\* two queries: one entry survived, with the first title
C17_Witness ==
    /\ spc = "done"
    /\ Len(queries) = 2
    /\ UrlsOf(allResults[1]) = <<Url_a, Url_a>>
    /\ allResults[1][1].title # allResults[1][2].title
    /\ UrlsOf(allResults[2]) = <<Url_wwwa, Url_b>>
    /\ found.urls = <<Url_a, Url_b>>
    /\ found.titles[Url_a] = allResults[1][1].title
    /\ found.snippets[Url_a] = allResults[1][1].snippet

(***************************************************************************)
(* C18. queryResults maps every query of the input to the URLs of that     *)
(* query's own results, in their order and with duplicates; every query    *)
(* has an entry, one that contributed nothing too.                         *)
(***************************************************************************)
\* C18: for every position of the input, queryResults holds under that query the
\* URLs of the results of that position
C18_EveryQueryMapsToItsOwnUrls ==
    (spc = "done" /\ Len(queries) > 0) =>
        \A k \in 1..Len(queries) :
            /\ queries[k] \in DOMAIN found.queryResults
            /\ found.queryResults[queries[k]] = UrlsOf(allResults[k])

(***************************************************************************)
(* C19. A query whose request throws or is answered with a status that is  *)
(* not 2xx contributes an empty list under its key; the other queries are  *)
(* sent all the same, in order; the result is what it would be had the     *)
(* failed query returned no results; multiSearch never rejects.            *)
(***************************************************************************)
OccursOnce(k) == \A j \in 1..Len(queries) : queries[j] = queries[k] => j = k

InitTools == InitFetch \/ InitSearch

NextTools == NextFetch \/ NextSearch

SpecTools == InitTools /\ [][NextTools]_vars

(***************************************************************************)
(* C20. Called with an empty list, multiSearch returns {urls: [],          *)
(* snippets: {}, titles: {}, queryResults: {}} and fetchPages returns      *)
(* {contents: {}, titles: {}, errors: {}, successCount: 0, errorCount: 0}; *)
(* neither sends a request nor starts a timer.                             *)
(***************************************************************************)
\* C20: at the return of a call with an empty list the result is the empty
\* structure and the log of requests and timers is empty
C20_EmptyListDoesNothing ==
    /\ (fpc = "done" /\ Len(pageUrls) = 0) =>
          /\ DOMAIN fetched = {"contents", "titles", "errors", "successCount", "errorCount"}
          /\ DOMAIN fetched.contents = {}
          /\ DOMAIN fetched.titles = {}
          /\ DOMAIN fetched.errors = {}
          /\ fetched.successCount = 0
          /\ fetched.errorCount = 0
          /\ Len(reqs) = 0
          /\ Len(log) = 0
    /\ (spc = "done" /\ Len(queries) = 0) =>
          /\ DOMAIN found = {"urls", "snippets", "titles", "queryResults"}
          /\ Len(found.urls) = 0
          /\ DOMAIN found.snippets = {}
          /\ DOMAIN found.titles = {}
          /\ DOMAIN found.queryResults = {}
          /\ Len(allResults) = 0
          /\ Len(log) = 0

\* fetchPages has returned from a call with an empty list
C20_Witness ==
    /\ fpc = "done"
    /\ Len(pageUrls) = 0
    /\ fetched.successCount = 0
    /\ fetched.errorCount = 0
    /\ Len(log) = 0

(***************************************************************************)
(* The server (cli.ts): the handler of CallTool requests. It reads the     *)
(* name and the arguments of the request, calls multiSearch or fetchPages  *)
(* with the arguments or their defaults, and answers with one text item    *)
(* holding the result serialized, or throws for any other name.            *)
(***************************************************************************)
\* args?.key ?? fallback
Arg(args, key, fallback) == IF key \in DOMAIN args THEN args[key] ELSE fallback

\* JSON.stringify(value, null, 2): the text of the value, indented by two
Stringify(value) == [json |-> value, space |-> 2]

\* { content: [{ type: "text", text: JSON.stringify(result, null, 2) }] }
TextContent(result) == [content |-> <<[type |-> "text", text |-> Stringify(result)]>>]

\* new Error(`Unknown tool: ${name}`)
UnknownTool(name) == [name |-> "Error", message |-> <<"Unknown tool: ", name>>]

\* Handler with a last branch that falls into fetchPages
HandlerFallsThrough(name) ==
    IF name = "multi_search" THEN "multiSearch" ELSE "fetchPages"

\* the chain of tests on the name of the tool
Handler(name) ==
    IF name = "multi_search" THEN "multiSearch"
    ELSE IF name = "fetch_pages" THEN "fetchPages"
    ELSE "throw"

\* the longest list an argument of a request holds
MaxItems == 2

\* the requests: a known or an unknown name, with any of the arguments of
\* either tool present or left out
ToolCalls ==
    LET Given == [urls : UNION {[1..n -> {Url_a}] : n \in 0..MaxItems},
                  max_chars : {MaxChars}, timeout : {10},
                  queries : UNION {[1..n -> {"query1"}] : n \in 0..MaxItems},
                  results_per_query : {1}]
        Keys == {S \in SUBSET {"urls", "max_chars", "timeout", "queries", "results_per_query"} :
                     S \subseteq {"urls", "max_chars", "timeout"} \/ S \subseteq {"queries", "results_per_query"}}
    IN {[name |-> n, arguments |-> [k \in S |-> g[k]]] :
            n \in {"multi_search", "fetch_pages", "web_search"}, g \in Given, S \in Keys}

InitServer ==
    /\ request \in ToolCalls
    /\ reply = Pending
    /\ rpc = "request"
    /\ UrlIdle /\ DedupIdle /\ ContentIdle
    /\ FetchIdle /\ SearchIdle /\ log = Idle
    /\ TemplateIdle /\ InstallIdle

\* the handler from its entry to its await, or to its throw
CallTool ==
    /\ rpc = "request"
    /\ LET name == request.name
           args == request.arguments
       IN CASE Handler(name) = "multiSearch" ->
                 /\ queries' = Arg(args, "queries", <<>>)
                 /\ resultsPerQuery' = Arg(args, "results_per_query", 5)
                 /\ spc' = "call"
                 /\ rpc' = "multi_search"
                 /\ UNCHANGED <<reply, qi, allResults, failed, found, fetchVars>>
            [] Handler(name) = "fetchPages" ->
                 /\ pageUrls' = Arg(args, "urls", <<>>)
                 /\ pageMaxChars' = Arg(args, "max_chars", 15000)
                 /\ timeout' = Arg(args, "timeout", 30)
                 /\ fpc' = "call"
                 /\ rpc' = "fetch_pages"
                 /\ UNCHANGED <<reply, reqs, fetched, searchVars>>
            [] OTHER ->
                 /\ reply' = Thrown(UnknownTool(name))
                 /\ rpc' = "done"
                 /\ UNCHANGED <<fetchVars, searchVars>>
    /\ UNCHANGED <<request, log, urlVars, dedupVars, contentVars, templateVars, installVars>>

\* the await of the handler ends: the result is serialized and returned, or
\* the exception of the tool leaves the handler
ToolSettles ==
    /\ \/ /\ rpc = "multi_search"
          /\ spc \in {"done", "rejected"}
          /\ reply' = IF spc = "done" THEN Returned(TextContent(found))
                      ELSE Thrown([name |-> "Error", message |-> <<"multiSearch">>])
       \/ /\ rpc = "fetch_pages"
          /\ fpc \in {"done", "rejected"}
          /\ reply' = IF fpc = "done" THEN Returned(TextContent(fetched))
                      ELSE Thrown([name |-> "Error", message |-> <<"fetchPages">>])
    /\ rpc' = "done"
    /\ UNCHANGED <<request, log, fetchVars, searchVars, urlVars, dedupVars, contentVars,
                   templateVars, installVars>>

NextServer == CallTool \/ ToolSettles \/ NextFetch \/ NextSearch

SpecServer == InitServer /\ [][NextServer]_vars

C24_ParallelBatch ==
    LET sent == SelectSeq(log, LAMBDA e : e.op = "fetch")
    IN /\ fpc \in {"awaiting", "done", "rejected"} /\ Len(pageUrls) > 0 =>
            /\ Len(reqs) = Len(pageUrls)
            /\ Len(sent) = Len(pageUrls)
            /\ \A k \in 1..Len(sent) : sent[k].url = pageUrls[k]
       /\ fpc = "call" => reqs = Idle
       /\ fpc = "awaiting" =>
            \A k \in 1..Len(reqs) :
                reqs[k].pc = "fetching" =>
                    ENABLED (\E response \in Responses : Respond(k, response))
       /\ fpc = "done" =>
            \A k \in 1..Len(reqs) :
                /\ reqs[k].pc = "settled"
                /\ (\A j \in 1..Len(pageUrls) : pageUrls[j] = pageUrls[k] => j = k) =>
                      LET u == pageUrls[k]
                          r == reqs[k].result.value
                      IN IF Truthy(r.error)
                         THEN u \in DOMAIN fetched.errors /\ fetched.errors[u] = r.error
                         ELSE /\ u \notin DOMAIN fetched.errors
                              /\ Truthy(r.content) =>
                                    u \in DOMAIN fetched.contents /\ fetched.contents[u] = r.content

\* both requests of a list of two were sent, and the second has settled while
\* the first has not been answered
C24_Witness ==
    /\ fpc = "awaiting"
    /\ Len(pageUrls) = 2
    /\ Len(SelectSeq(log, LAMBDA e : e.op = "fetch")) = 2
    /\ reqs[1].pc = "fetching"
    /\ reqs[2].pc = "settled"

(***************************************************************************)
(* C25. Neither tool retries: fetchPages sends exactly one HTTP request    *)
(* for each element of its list and multiSearch exactly one for each       *)
(* query, also when requests fail or time out; an item that failed or      *)
(* timed out is recorded once, and the batch terminates provided every     *)
(* request eventually settles.                                             *)
(***************************************************************************)
\* the requests sent so far
Sent == SelectSeq(log, LAMBDA e : e.op = "fetch")

\* the call has returned its result
Terminated == (fpc # "idle" => fpc = "done") /\ (spc # "idle" => spc = "done")

\* one request for each element, in order, from the entry of fetchPages on and at
\* the return of multiSearch, and never more than one for a query; the URL of an
\* element whose request failed has one entry in errors, and errorCount counts it
OncePerItem ==
    /\ fpc = "call" => Sent = <<>>
    /\ fpc \in {"awaiting", "done"} =>
          Sent = [k \in 1..Len(pageUrls) |-> [op |-> "fetch", url |-> pageUrls[k]]]
    /\ fpc = "done" =>
          LET Lost == {k \in 1..Len(reqs) : Truthy(reqs[k].result.value.error)}
          IN /\ DOMAIN fetched.errors = {pageUrls[k] : k \in Lost}
             /\ fetched.errorCount = Cardinality({pageUrls[k] : k \in Lost})
             /\ fetched.errorCount <= Cardinality(Lost)
    /\ spc # "idle" =>
          /\ Len(Sent) <= Len(queries)
          /\ \A k \in 1..Len(Sent) : Sent[k] = [op |-> "fetch", q |-> queries[k]]
    /\ spc = "done" => Len(Sent) = Len(queries)

\* how far a call is from its return: 0 at the return, and less after every step
Rank ==
    LET Left(r) == (CASE r.pc = "fetching" -> 4 [] r.pc = "reading" -> 2 [] OTHER -> 0)
                   + (IF r.expired \/ r.pc = "settled" THEN 0 ELSE 1)
        RECURSIVE Sum(_)
        Sum(k) == IF k = 0 THEN 0 ELSE Left(reqs[k]) + Sum(k - 1)
        OfFetch == CASE fpc = "call" -> 2 + 5 * Len(pageUrls)
                     [] fpc = "awaiting" -> 1 + Sum(Len(reqs))
                     [] OTHER -> 0
        OfSearch == CASE spc = "call" -> 4 + 4 * Len(queries)
                      [] spc = "delaying" -> 3 + 4 * (Len(queries) - qi)
                      [] spc = "searching" -> 2 + 4 * (Len(queries) - qi)
                      [] spc = "reading" -> 1 + 4 * (Len(queries) - qi)
                      [] OTHER -> 0
    IN OfFetch + OfSearch

\* a call that has not returned is waiting for a request or a timer only, and
\* each of these can settle; with all of them settled the call can return
CanProceed ==
    /\ fpc = "call" => ENABLED FetchPagesCall
    /\ fpc = "awaiting" =>
          /\ \A k \in 1..Len(reqs) :
                /\ reqs[k].pc = "fetching" => ENABLED (\E r \in Responses : Respond(k, r))
                /\ reqs[k].pc = "reading" => ENABLED (\E page \in Pages : BodyArrives(k, page))
          /\ (\A k \in 1..Len(reqs) : reqs[k].pc = "settled") => ENABLED FetchPagesReturn
    /\ spc = "call" => ENABLED MultiSearchCall
    /\ spc = "delaying" => ENABLED DelayElapses
    /\ spc = "searching" => ENABLED (\E status \in {200, 429} : SearchResponds(status))
    /\ spc = "reading" /\ qi + 1 < Len(queries) => ENABLED SearchBodyArrives(<<>>)

\* C25: in every state each item has been requested at most once, and exactly
\* once from the moment its request is due; a call that has not returned can
\* always take a step, and every step brings it nearer to its return, which is
\* reached with Rank = 0: no run goes on for ever and none stops short of the
\* return unless a request never settles
C25_OneRequestPerItemAndTermination ==
    /\ []OncePerItem
    /\ []CanProceed
    /\ [](Rank = 0 <=> Terminated)
    /\ [][Rank' < Rank]_vars

\* a list of two URLs whose first request timed out and whose second failed in
\* transport: two requests in the log, both recorded, and the call returned
C25_Witness ==
    /\ fpc = "done"
    /\ Len(pageUrls) = 2
    /\ pageUrls[1] # pageUrls[2]
    /\ reqs[1].timer = "fired"
    /\ reqs[2].thrown \in TransportErrors
    /\ Len(Sent) = 2
    /\ fetched.errorCount = 2

(***************************************************************************)
(* C26. The list parsed from a page of results keeps the order of the page *)
(* and holds at most the count asked per query; an entry whose link is     *)
(* missing, empty or an ad redirect of DuckDuckGo, or whose title is       *)
(* empty, is skipped and does not count toward the cap: the list is the    *)
(* first N valid entries of the page.                                      *)
(***************************************************************************)
\* the first n of the entries of the page that have a link with an href that is
\* not empty and not an ad redirect, and a title that is not empty once trimmed
FirstValid(page, n) ==
    LET Valid(div) == /\ div.a
                      /\ div.href # Null
                      /\ div.href # <<>>
                      /\ ~startsWith(div.href, Str_ddgRedirect)
                      /\ trim(div.title) # <<>>
        valid == SelectSeq(page, Valid)
    IN [k \in 1..(IF Len(valid) < n THEN Len(valid) ELSE n) |->
            [url |-> valid[k].href, title |-> trim(valid[k].title),
             snippet |-> IF valid[k].snippet = Null THEN <<>> ELSE trim(valid[k].snippet)]]

\* C26: whenever a page arrives, the list pushed for its query is the first
\* resultsPerQuery valid entries of the page, in the order of the page
C26_FirstValidEntries ==
    [][\A page \in SearchPages :
          SearchBodyArrives(page) =>
              /\ Len(allResults') = Len(allResults) + 1
              /\ allResults'[Len(allResults')] = FirstValid(page, resultsPerQuery)]_vars

\* with one result asked per query, a page whose first valid entry is the one of
\* Url_b, before or after an entry that is skipped, gave that entry alone
C26_Witness ==
    /\ resultsPerQuery = 1
    /\ \E k \in 1..Len(allResults) :
          /\ Len(allResults[k]) = 1
          /\ allResults[k][1].url = Url_b

(***************************************************************************)
(* C29. In every result of multiSearch, for any list of queries, repeated  *)
(* query strings included, every URL of urls is in the queryResults list   *)
(* of at least one query, and every URL of a queryResults list has its     *)
(* canonical key represented by exactly one entry of urls.                 *)
(***************************************************************************)
\* C29: at the return each URL of urls is listed under some query, and each URL
\* listed under a query has the key of exactly one URL of urls
C29_UrlsAndQueryResultsAgree ==
    (spc = "done" /\ Len(queries) > 0) =>
        /\ \A u \in Range(found.urls) :
              \E q \in DOMAIN found.queryResults : u \in Range(found.queryResults[q])
        /\ \A q \in DOMAIN found.queryResults :
              \A u \in Range(found.queryResults[q]) :
                  Cardinality({k \in 1..Len(found.urls) :
                                  normalizeUrl(found.urls[k]) = normalizeUrl(u)}) = 1

(***************************************************************************)
(* C30. In every result of fetchPages a URL has an entry in titles only if *)
(* it has one in contents and none in errors: keys(titles) is a subset of  *)
(* keys(contents), for any list, duplicated URLs and pages with empty      *)
(* extracted text included.                                                *)
(***************************************************************************)
\* C30: at the return every key of titles is a key of contents and not of errors
C30_TitlesOnlyWithContents ==
    fpc = "done" =>
        /\ DOMAIN fetched.titles \subseteq DOMAIN fetched.contents
        /\ DOMAIN fetched.titles \cap DOMAIN fetched.errors = {}

(***************************************************************************)
(* C28. Two parseable URLs that differ only in an explicit non-default     *)
(* port, or only in their scheme, have different normalized keys, so       *)
(* deduplicateUrls never drops one of them as a duplicate of the other.    *)
(***************************************************************************)
\* C28: the key of a URL written with the port 8080 differs from the key of the
\* same URL written without a port, and the key of a URL differs from the key of
\* the same URL written with the other scheme
C28_PortAndSchemeKept ==
    (npc = "done" /\ given.kind = "url") =>
        /\ Len(given.port) > 0 =>
              normalized # normalizeUrl(Written([given EXCEPT !.port = <<>>]))
        /\ \A s \in Schemes :
              toLowerCase(s) # toLowerCase(given.scheme) =>
                  normalized # normalizeUrl(Written([given EXCEPT !.scheme = s]))

(***************************************************************************)
(* The toolkit installer (packages/toolkit/src/installer): the templates.  *)
(***************************************************************************)
RECURSIVE ReplaceFrom(_, _, _, _)
\* String.prototype.replaceAll(pattern, replacement) with a pattern that is a
\* string and not empty, from position pos: the occurrences of the pattern are
\* taken from the left without overlap, what was inserted is not searched again,
\* and in the replacement $$ stands for $ and $& for the occurrence (the other
\* sequences that start with $ are in no value of the inputs)
ReplaceFrom(str, pos, pattern, replacement) ==
    LET RECURSIVE Substitution(_)
        Substitution(i) ==
            IF i > Len(replacement) THEN <<>>
            ELSE IF replacement[i] = "$" /\ i < Len(replacement)
                    /\ replacement[i + 1] \in {"$", "&"}
                 THEN (IF replacement[i + 1] = "$" THEN <<"$">> ELSE pattern)
                      \o Substitution(i + 2)
                 ELSE <<replacement[i]>> \o Substitution(i + 1)
    IN IF pos > Len(str) THEN <<>>
       ELSE IF pos + Len(pattern) - 1 <= Len(str)
               /\ SubSeq(str, pos, pos + Len(pattern) - 1) = pattern
            THEN Substitution(1) \o ReplaceFrom(str, pos + Len(pattern), pattern, replacement)
            ELSE <<str[pos]>> \o ReplaceFrom(str, pos + 1, pattern, replacement)

\* `{{${key}}}`
Placeholder(key) == <<"{", "{">> \o key \o <<"}", "}">>

RECURSIVE ReplaceEntries(_, _, _)
\* the loop over Object.entries(values), from entry k
ReplaceEntries(result, entries, k) ==
    IF k > Len(entries) THEN result
    ELSE ReplaceEntries(ReplaceFrom(result, 1, Placeholder(entries[k].key), entries[k].value),
                        entries, k + 1)

replacePlaceholders(t, entries) == ReplaceEntries(t, entries, 1)

\* the longest template, in pieces
MaxPieces == 2

InitTemplate ==
    LET Pieces == {Placeholder(<<"a">>), Placeholder(<<"b">>), Placeholder(<<"c">>), <<"x">>}
        Values == {<<"X">>, Placeholder(<<"b">>), <<"$", "&">>}
        Entries == [key : {<<"a">>, <<"b">>}, value : Values]
    IN /\ template \in {Join(ps, <<>>) : ps \in UNION {[1..n -> Pieces] : n \in 0..MaxPieces}}
       /\ values \in {es \in UNION {[1..n -> Entries] : n \in 0..2} :
                         \A i, j \in 1..Len(es) : es[i].key = es[j].key => i = j}
       /\ replaced = Idle
       /\ tpc = "call"
       /\ UrlIdle /\ DedupIdle /\ ContentIdle
       /\ FetchIdle /\ SearchIdle /\ log = Idle
       /\ ServerIdle /\ InstallIdle

ReplacePlaceholders ==
    /\ tpc = "call"
    /\ replaced' = replacePlaceholders(template, values)
    /\ tpc' = "done"
    /\ UNCHANGED <<template, values, urlVars, dedupVars, contentVars,
                   fetchVars, searchVars, log, serverVars, installVars>>

NextTemplate == ReplacePlaceholders

SpecTemplate == InitTemplate /\ [][NextTemplate]_vars

(***************************************************************************)
(* C23. replacePlaceholders(template, values) is the template with every   *)
(* occurrence of '{{key}}', for each key of values, replaced by the value  *)
(* of the key, and all other text unchanged, placeholders whose key is not *)
(* in values included; substituted values are not expanded again, so the   *)
(* result does not depend on the order of the keys.                        *)
(***************************************************************************)
RECURSIVE Substituted(_, _, _)
\* the template from position pos with each placeholder of a key of the entries
\* replaced by the value of the key as it is written, in one pass
Substituted(t, entries, pos) ==
    IF pos > Len(t) THEN <<>>
    ELSE LET here == {k \in 1..Len(entries) :
                         /\ pos + Len(entries[k].key) + 3 <= Len(t)
                         /\ SubSeq(t, pos, pos + Len(entries[k].key) + 3)
                               = <<"{", "{">> \o entries[k].key \o <<"}", "}">>}
         IN IF here = {} THEN <<t[pos]>> \o Substituted(t, entries, pos + 1)
            ELSE LET k == CHOOSE k \in here : TRUE
                 IN entries[k].value \o Substituted(t, entries, pos + Len(entries[k].key) + 4)

\* C23: the string returned is the template with the placeholders of the keys
\* replaced by their values as written, and it is the string returned for the
\* same entries in the opposite order
C23_SubstitutedOnce ==
    tpc = "done" =>
        /\ replaced = Substituted(template, values, 1)
        /\ replaced = replacePlaceholders(template, [k \in 1..Len(values) |->
                                                        values[Len(values) + 1 - k]])

(***************************************************************************)
(* The toolkit installer: installOpenCode and opencode.json. A file is     *)
(* its JSON value and the way it is written; a JSON value is a record with *)
(* its type, an object holding its members in their order.                 *)
(***************************************************************************)
Absent == [exists |-> FALSE]

Str(s) == [type |-> "string", s |-> s]
Object(members) == [type |-> "object", members |-> members]
Array(items) == [type |-> "array", items |-> items, own |-> <<>>]

\* const OPENCODE_MCP_ENTRY
OPENCODE_MCP_ENTRY ==
    Object(<<[key |-> "type", value |-> Str("local")],
             [key |-> "command", value |-> Array(<<Str("npx"), Str("-y"), Str("web-research-mcp")>>)]>>)

\* object[key] = value on the members of an object or the own properties of an
\* array: in place when the key is there, at the end when it is not
Assign(members, key, value) ==
    IF \E k \in 1..Len(members) : members[k].key = key
    THEN [k \in 1..Len(members) |->
             IF members[k].key = key THEN [key |-> key, value |-> value] ELSE members[k]]
    ELSE Append(members, [key |-> key, value |-> value])

\* JSON.stringify(config, null, 2) + "\n" as a file: of an array the items are
\* written and the other properties are not
Stringified(members) ==
    [exists |-> TRUE, format |-> "indent 2",
     json |-> [k \in 1..Len(members) |->
                  IF members[k].value.type = "array"
                  THEN [members[k] EXCEPT !.value.own = <<>>]
                  ELSE members[k]]]

\* writeOpenCodeConfig: the file written, or the exception of JSON.parse
writeOpenCodeConfig(file) ==
    IF file.exists /\ file.format = "not JSON"
    THEN Thrown([name |-> "SyntaxError"])
    ELSE
    LET parsed == IF file.exists THEN file.json
                  ELSE <<[key |-> "$schema", value |-> Str("https://opencode.ai/config.json")]>>
        at == {k \in 1..Len(parsed) : parsed[k].key = "mcp"}
        config1 == IF at = {} \/ \A k \in at : parsed[k].value.type \notin {"object", "array"}
                   THEN Assign(parsed, "mcp", Object(<<>>))
                   ELSE parsed
        mcp == config1[CHOOSE k \in 1..Len(config1) : config1[k].key = "mcp"].value
        mcp1 == IF mcp.type = "array"
                THEN [mcp EXCEPT !.own = Assign(@, "web-research", OPENCODE_MCP_ENTRY)]
                ELSE [mcp EXCEPT !.members = Assign(@, "web-research", OPENCODE_MCP_ENTRY)]
    IN Returned(Stringified(Assign(config1, "mcp", mcp1)))

\* the most entries of mcp in an existing file
MaxEntries == 2

\* the working directory before the installation: no opencode.json, one that
\* JSON.parse rejects, or one with or without $schema, provider and mcp, mcp
\* being null, a string, an array or an object of up to MaxEntries servers
InitInstall ==
    LET schema == [key |-> "$schema", value |-> Str("https://opencode.ai/config.json")]
        provider == [key |-> "provider",
                     value |-> Object(<<[key |-> "name", value |-> Str("anthropic")]>>)]
        theme == [key |-> "theme", value |-> Str("dark")]
        Servers == {[key |-> "other-server",
                     value |-> Object(<<[key |-> "type", value |-> Str("local")],
                                        [key |-> "command",
                                         value |-> Array(<<Str("node"), Str("other.js")>>)]>>)],
                    [key |-> "web-research",
                     value |-> Object(<<[key |-> "type", value |-> Str("remote")]>>)],
                    [key |-> "web-research", value |-> OPENCODE_MCP_ENTRY]}
        Mcps == {<<>>, <<[key |-> "mcp", value |-> [type |-> "null"]]>>,
                 <<[key |-> "mcp", value |-> Str("off")]>>,
                 <<[key |-> "mcp", value |-> Array(<<>>)]>>}
                \cup {<<[key |-> "mcp", value |-> Object(es)]>> :
                         es \in {e \in UNION {[1..n -> Servers] : n \in 0..MaxEntries} :
                                    \A i, j \in 1..Len(e) : e[i].key = e[j].key => i = j}}
    IN /\ config \in {Absent, [exists |-> TRUE, format |-> "not JSON", json |-> <<>>]}
                     \cup {[exists |-> TRUE, format |-> f, json |-> pre \o m \o post] :
                              f \in {"indent 2", "with comments"},
                              pre \in {<<>>, <<schema>>, <<schema, provider>>},
                              m \in Mcps, post \in {<<>>, <<theme>>}}
       /\ written = {}
       /\ ipc = "ready"
       /\ UrlIdle /\ DedupIdle /\ ContentIdle
       /\ FetchIdle /\ SearchIdle /\ log = Idle
       /\ ServerIdle /\ TemplateIdle

\* installOpenCode, a first and a second time: opencode.json is written or merged,
\* then the agents and the skills are written; the exception of
\* writeOpenCodeConfig leaves it before anything is written
InstallOpenCode ==
    /\ ipc \in {"ready", "installed"}
    /\ LET outcome == writeOpenCodeConfig(config)
       IN IF outcome.throws
          THEN /\ ipc' = "failed"
               /\ UNCHANGED <<config, written>>
          ELSE /\ config' = outcome.value
               /\ written' = written \cup {".opencode/agents/web-searcher.md",
                                           ".opencode/agents/deep-researcher.md",
                                           ".opencode/skills/web-search/SKILL.md",
                                           ".opencode/skills/deep-research/SKILL.md"}
               /\ ipc' = IF ipc = "ready" THEN "installed" ELSE "reinstalled"
    /\ UNCHANGED <<urlVars, dedupVars, contentVars, fetchVars, searchVars, log,
                   serverVars, templateVars>>

NextInstall == InstallOpenCode

SpecInstall == InitInstall /\ [][NextInstall]_vars

(***************************************************************************)
(* C22. installOpenCode in a directory with an opencode.json changes only  *)
(* mcp['web-research'], which it sets to {type: 'local', command: ['npx',  *)
(* '-y', 'web-research-mcp']}: every other top-level setting and every     *)
(* other entry of mcp is unchanged. Without an opencode.json it creates    *)
(* one with $schema and that entry. A second run leaves opencode.json      *)
(* unchanged.                                                              *)
(***************************************************************************)
\* the members but the one of the key
Except(members, key) == SelectSeq(members, LAMBDA m : m.key # key)

\* the members of mcp in the members of a file, none when mcp is no object
Entries(members) ==
    LET at == {k \in 1..Len(members) : members[k].key = "mcp"}
    IN IF at = {} THEN <<>>
       ELSE LET mcp == members[CHOOSE k \in at : TRUE].value
            IN IF mcp.type = "object" THEN mcp.members ELSE <<>>

\* C22: every installation that succeeds leaves the settings other than mcp and
\* the entries of mcp other than web-research as they were, and leaves
\* web-research in mcp with the entry of the installer; without a file before,
\* the file is $schema and mcp with that entry alone; a second installation
\* leaves the file as the first wrote it
C22_OnlyWebResearchEntry ==
    [][(InstallOpenCode /\ ipc' # "failed") =>
          LET before == IF config.exists THEN config.json ELSE <<>>
              after == config'.json
          IN /\ config.exists => Except(after, "mcp") = Except(before, "mcp")
             /\ Except(Entries(after), "web-research") = Except(Entries(before), "web-research")
             /\ \E k \in 1..Len(Entries(after)) :
                   Entries(after)[k] = [key |-> "web-research", value |-> OPENCODE_MCP_ENTRY]
             /\ ~config.exists =>
                   after = <<[key |-> "$schema", value |-> Str("https://opencode.ai/config.json")],
                             [key |-> "mcp",
                              value |-> Object(<<[key |-> "web-research",
                                                  value |-> OPENCODE_MCP_ENTRY]>>)]>>
             /\ ipc = "installed" => config' = config]_vars

(***************************************************************************)
(* fallbackExtract on a document: the two removal loops and the text of    *)
(* the body. A document is the sequence of its elements in document order, *)
(* each with its tag, its class and id attributes, the position of its     *)
(* parent (0 for the root) and the text it holds before its children.      *)
(***************************************************************************)
REMOVE_TAGS == {"script", "style", "nav", "footer", "header", "aside", "noscript", "iframe", "svg", "form", "button"}

BOILERPLATE_PATTERNS ==
    {<<"n","a","v">>,
     <<"n","a","v","b","a","r">>,
     <<"n","a","v","i","g","a","t","i","o","n">>,
     <<"m","e","n","u">>,
     <<"s","i","d","e","b","a","r">>,
     <<"f","o","o","t","e","r">>,
     <<"h","e","a","d","e","r">>,
     <<"a","d","v","e","r","t","i","s","e","m","e","n","t">>,
     <<"a","d">>,
     <<"a","d","s">>,
     <<"s","o","c","i","a","l">>,
     <<"s","h","a","r","e">>,
     <<"c","o","m","m","e","n","t">>,
     <<"c","o","m","m","e","n","t","s">>,
     <<"r","e","l","a","t","e","d">>}

\* BoilerplateNamed looking at the class attribute only
BoilerplateByClass(el) ==
    LET className == toLowerCase(IF el.class = NoAttribute THEN <<>> ELSE el.class)
    IN \E pattern \in BOILERPLATE_PATTERNS : includes(className, pattern)

\* the test of the second loop on an element
BoilerplateNamed(el) ==
    LET className == toLowerCase(IF el.class = NoAttribute THEN <<>> ELSE el.class)
        id == toLowerCase(IF el.id = NoAttribute THEN <<>> ELSE el.id)
    IN \E pattern \in BOILERPLATE_PATTERNS : includes(className, pattern) \/ includes(id, pattern)

RECURSIVE Attached(_, _, _)
\* the element at k is in the document: neither it nor an ancestor was removed
Attached(doc, removed, k) ==
    k \notin removed /\ (doc[k].parent = 0 \/ Attached(doc, removed, doc[k].parent))

RECURSIVE Within(_, _, _)
\* the element at k is the element at a or a descendant of it
Within(doc, a, k) == k = a \/ (doc[k].parent # 0 /\ Within(doc, a, doc[k].parent))

\* the two loops, and document.body?.textContent || ""
BodyText(doc) ==
    LET byTag == {k \in 1..Len(doc) : doc[k].tag \in REMOVE_TAGS}
        remaining == {k \in 1..Len(doc) : Attached(doc, byTag, k)}
        removed == byTag \cup {k \in remaining : BoilerplateNamed(doc[k])}
        bodies == {k \in 1..Len(doc) : doc[k].tag = "body" /\ Attached(doc, removed, k)}
        RECURSIVE TextFrom(_, _)
        TextFrom(body, k) ==
            IF k > Len(doc) THEN <<>>
            ELSE (IF Within(doc, body, k) /\ Attached(doc, removed, k) THEN doc[k].text ELSE <<>>)
                 \o TextFrom(body, k + 1)
    IN IF bodies = {} THEN <<>>
       ELSE TextFrom(CHOOSE k \in bodies : \A j \in bodies : k <= j, 1)

\* fallbackExtract on a document that parses
fallbackExtractDocument(doc, mc) == fallbackExtract([body |-> BodyText(doc)], mc)

\* the most elements in the body of a document
MaxElements == 2

\* html with a head holding a title, and a body, with or without a class, of up
\* to MaxElements elements, each a child of the body or of the element before it
InitFallback ==
    LET Top(class) ==
            <<[tag |-> "html", class |-> NoAttribute, id |-> NoAttribute, parent |-> 0, text |-> <<>>],
              [tag |-> "head", class |-> NoAttribute, id |-> NoAttribute, parent |-> 1, text |-> <<>>],
              [tag |-> "title", class |-> NoAttribute, id |-> NoAttribute, parent |-> 2, text |-> <<"T">>],
              [tag |-> "body", class |-> class, id |-> NoAttribute, parent |-> 1, text |-> <<>>]>>
        Letter(k) == <<<<"a">>, <<"b">>, <<"c">>, <<"d">>>>[k]
        Elements(n) ==
            {e \in [1..n -> [tag : {"div", "nav"},
                             class : {NoAttribute, <<"m","a","i","n">>, <<"S","i","d","e","B","a","r">>},
                             id : {NoAttribute, <<"t","o","p","-","A","d","s">>},
                             under : {"body", "previous"}]] :
                n > 0 => e[1].under = "body"}
        Body(e) == [k \in 1..Len(e) |->
                       [tag |-> e[k].tag, class |-> e[k].class, id |-> e[k].id,
                        parent |-> IF e[k].under = "body" THEN 4 ELSE 3 + k,
                        text |-> Letter(k)]]
    IN /\ html \in {Top(class) \o Body(e) :
                       class \in {NoAttribute, <<"h","a","s","-","m","e","n","u">>},
                       e \in UNION {Elements(n) : n \in 0..MaxElements}}
       /\ maxChars = 100
       /\ text = Idle
       /\ out = Idle
       /\ cpc = "fallback"
       /\ UrlIdle
       /\ DedupIdle
       /\ ToolIdle

\* the call of fallbackExtract on the document
FallbackOnDocument ==
    /\ cpc = "fallback"
    /\ out' = fallbackExtractDocument(html, maxChars)
    /\ cpc' = "extracted"
    /\ UNCHANGED <<text, html, maxChars, urlVars, dedupVars, toolVars>>

NextFallback == FallbackOnDocument

SpecFallback == InitFallback /\ [][NextFallback]_vars

(***************************************************************************)
(* C27. In the fallback extraction the text of a node is part of the       *)
(* extracted text if and only if neither the element of the node nor any   *)
(* of its ancestors has a tag of the boilerplate tags or a class or id     *)
(* attribute that contains, whatever the case, one of the boilerplate      *)
(* keywords; removing an element removes the text of all its descendants,  *)
(* and a match on either attribute alone is enough.                        *)
(***************************************************************************)
\* neither the element at k nor an ancestor of it has a boilerplate tag or a
\* class or id that contains a boilerplate keyword
Kept(doc, k) ==
    \A a \in 1..Len(doc) :
        Within(doc, a, k) =>
            /\ doc[a].tag \notin REMOVE_TAGS
            /\ \A name \in {doc[a].class, doc[a].id} \ {NoAttribute} :
                  \A pattern \in BOILERPLATE_PATTERNS :
                      \A i \in 1..Len(name) :
                          i + Len(pattern) - 1 > Len(name)
                          \/ toLowerCase(SubSeq(name, i, i + Len(pattern) - 1)) # pattern

\* C27 as stated: the text of every element that holds text, wherever it is in
\* the document, is in the extracted text exactly when the element is kept
C27_EveryNode ==
    cpc = "extracted" =>
        \A k \in 1..Len(html) :
            html[k].text # <<>> =>
                ((\E i \in 1..Len(out) : <<out[i]>> = html[k].text) <=> Kept(html, k))

\* C27: the text of every element in the body that holds text is in the
\* extracted text exactly when neither the element nor an ancestor of it, the
\* body and html included, has a boilerplate tag or a class or id that contains
\* a boilerplate keyword
C27_BodyNodes ==
    cpc = "extracted" =>
        \A k \in 1..Len(html) :
            (html[k].text # <<>> /\ Within(html, 4, k)) =>
                ((\E i \in 1..Len(out) : <<out[i]>> = html[k].text) <=> Kept(html, k))

\* a div kept with its text, holding a div removed for its id alone
C27_Witness ==
    /\ cpc = "extracted"
    /\ Len(html) = 6
    /\ html[5].tag = "div" /\ html[5].class = <<"m","a","i","n">> /\ html[5].id = NoAttribute
    /\ html[6].tag = "div" /\ html[6].class = NoAttribute /\ html[6].id # NoAttribute
    /\ html[6].parent = 5
    /\ out = <<"a">>

====
